---- MODULE Spec2Model ----
(***************************************************************************)
(* Lyric timing engine of the player: text segmentation, heuristic         *)
(* per-character timing synthesis, the line-level (LRC) parser and the     *)
(* precise (YRC) importer.                                                 *)
(*                                                                         *)
(* Representation.                                                         *)
(*  - A character is a string token; a text is a sequence of characters.   *)
(*    CJK characters are written as tokens ("han", "ah", "zuo", ...).      *)
(*  - A time in seconds is represented by its number of milliseconds, so   *)
(*    0.12 s is 120.  Divisions of the synthesizer are floor divisions at  *)
(*    millisecond resolution.                                              *)
(*  - An optional value (nextLineTime?, duration?) is <<>> or <<v>>.       *)
(***************************************************************************)
EXTENDS Integers, Sequences, FiniteSets, TLC

VARIABLES
    pc,            \* position of the operation under way
    text,          \* argument of splitTextToChars
    chars,         \* value returned by splitTextToChars
    line,          \* LyricLine handed to generateCharTimings: time, text, duration
    nextLineTime,  \* optional second argument of generateCharTimings
    result,        \* LyricChar[] built by generateCharTimings
    tagLine,       \* argument of parseMultipleTimestamps
    tagResults,    \* value returned by parseMultipleTimestamps
    lyricText,     \* argument of parseLyric: the physical lines of the LRC text
    lyrics,        \* lyrics returned by parseLyric
    metaInfo,      \* metaInfo returned by parseLyric
    yrcLine,       \* argument of parseYrcLine / parseYrcJsonLine
    yrcParsed,     \* value returned by parseYrcLine / parseYrcJsonLine
    tlyricText,    \* optional argument of parseLyric: the lines of the translation text
    yrcText,       \* optional argument of parseLyric: the lines of the YRC text
    yrcsText,      \* optional argument of parseLyric: the lines of the backup YRC text
    yrcSource,     \* argument of parseYrc: the lines of a YRC text
    yrcLyrics,     \* value returned by parseYrc
    query,         \* arguments of getCharHighlightClass / getCharGradientProgress
    highlightClass,    \* value returned by getCharHighlightClass
    gradientProgress,  \* value returned by getCharGradientProgress
    weighed,       \* the two units getCharWeight is applied to
    weights,       \* the two values getCharWeight returns
    markText,      \* argument of filterSpecialMarks
    markResult,    \* value returned by filterSpecialMarks
    now,               \* performance.now(), in milliseconds
    invokeTime,        \* TimeoutTools.invokeTime
    animationFrameId,  \* TimeoutTools.animationFrameId
    timeoutId,         \* TimeoutTools.timeoutId
    callback,          \* TimeoutTools.callback
    pendingFrames,     \* handles of the requestAnimationFrame callbacks the window holds
    pendingTimeouts,   \* the setTimeout callbacks the window holds: handle and due time
    lastHandle,        \* last handle the window handed out
    props,             \* props of the lyric renderer: lyrics, currentTime, lyricOffset
    currentLyricIndex  \* computed currentLyricIndex of the lyric renderer

segVars == <<text, chars>>

synthVars == <<line, nextLineTime, result>>

tagVars == <<tagLine, tagResults>>

lrcVars == <<lyricText, tlyricText, yrcText, yrcsText, lyrics, metaInfo>>

yrcVars == <<yrcLine, yrcParsed>>

yrcTextVars == <<yrcSource, yrcLyrics>>

queryVars == <<query, highlightClass, gradientProgress>>

weightVars == <<weighed, weights>>

markVars == <<markText, markResult>>

timerVars == <<now, invokeTime, animationFrameId, timeoutId, callback,
               pendingFrames, pendingTimeouts, lastHandle>>

renderVars == <<props, currentLyricIndex>>

moreVars == <<markVars, timerVars, renderVars>>

restVars == <<yrcTextVars, queryVars, weightVars, moreVars>>

vars == <<pc, segVars, synthVars, tagVars, lrcVars, yrcVars, restVars>>

----------------------------------------------------------------------------
(* Bounds *)

\* longest text, in characters, given to the segmenter and the synthesizer
MaxLen == 3

\* most timestamp tags stacked on one physical line
MaxTags == 2

\* most physical lines of an LRC text
MaxLines == 3

\* most character entries of one YRC line
MaxYrcChars == 2

----------------------------------------------------------------------------
(* Characters and texts *)

\* [a-zA-Z]
Letters == {"a", "b", "c", "d", "e", "i", "m", "n", "s", "u", "M", "E"}

\* [0-9]
Digits == {"0", "1", "5", "9"}

\* the CJK punctuation of getCharWeight that the model uses
CjkPunct == {"cjk_comma", "cjk_colon", "cjk_lparen", "cjk_rparen", "cjk_ellipsis"}

\* the ASCII punctuation of getCharWeight
AsciiPunct == {",", ".", "!", "?", ";", ":", "'", "(", ")", "[", "]", "-"}

\* the set vocalChars of isLikelyExtendedChar, one representative
VocalChars == {"ah"}

\* characters the bounded inputs are built from
Alphabet == {"a", "1", " ", "han", "ah", "!"}

RECURSIVE TextsUpTo(_)
TextsUpTo(n) ==
    IF n = 0 THEN {<<>>}
    ELSE LET shorter == TextsUpTo(n - 1)
         IN  shorter \cup {Append(t, c) : t \in {s \in shorter : Len(s) = n - 1}, c \in Alphabet}

Texts == TextsUpTo(MaxLen)

RECURSIVE Join(_)
\* units.join('')
Join(units) == IF units = <<>> THEN <<>> ELSE Head(units) \o Join(Tail(units))

IsAlnum(c) == c \in Letters \cup Digits

----------------------------------------------------------------------------
(* splitTextToChars *)

RECURSIVE WordEnd(_, _)
\* inner while loop: the first index >= i that is past the text or not alphanumeric
WordEnd(t, i) == IF i <= Len(t) /\ IsAlnum(t[i]) THEN WordEnd(t, i + 1) ELSE i

RECURSIVE SplitFrom_DropSpaces(_, _)
SplitFrom_DropSpaces(t, i) ==
    IF i > Len(t) THEN <<>>
    ELSE IF IsAlnum(t[i])
         THEN LET j == WordEnd(t, i + 1)
              IN  <<SubSeq(t, i, j - 1)>> \o SplitFrom_DropSpaces(t, j)
         ELSE IF t[i] = " "
              THEN SplitFrom_DropSpaces(t, i + 1)
              ELSE <<(<<t[i]>>)>> \o SplitFrom_DropSpaces(t, i + 1)

RECURSIVE SplitFrom(_, _)
\* outer while loop of splitTextToChars, from index i
SplitFrom(t, i) ==
    IF i > Len(t) THEN <<>>
    ELSE IF IsAlnum(t[i])
         THEN LET j == WordEnd(t, i + 1)
              IN  <<SubSeq(t, i, j - 1)>> \o SplitFrom(t, j)
         ELSE IF t[i] = " "
              THEN <<(<<" ">>)>> \o SplitFrom(t, i + 1)
              ELSE <<(<<t[i]>>)>> \o SplitFrom(t, i + 1)

splitTextToChars_dropSpaces(t) == SplitFrom_DropSpaces(t, 1)

splitTextToChars(t) == SplitFrom(t, 1)

----------------------------------------------------------------------------
(* getCharWeight, isLikelyExtendedChar, isLongPause *)

Min(a, b) == IF a < b THEN a ELSE b

Max(a, b) == IF a > b THEN a ELSE b

\* regex.test(unit): some character of the unit is in the class
HasChar(u, class) == \E k \in 1..Len(u) : u[k] \in class

\* getCharWeight with words weighing length * 0.3: a two-letter word weighs 0.6
getCharWeight_lightWords(u) ==
    IF u = <<" ">> THEN 1
    ELSE IF HasChar(u, CjkPunct) THEN 4
    ELSE IF HasChar(u, AsciiPunct) THEN 4
    ELSE IF HasChar(u, Digits) THEN 12
    ELSE IF HasChar(u, Letters) THEN Min(Len(u) * 6, 60)
    ELSE 20

\* getCharWeight in twentieths: 0.05 is 1, 0.2 is 4, 0.6 is 12, 1.0 is 20,
\* min(length * 0.5 + 0.3, 3.0) is min(length * 10 + 6, 60)
getCharWeight(u) ==
    IF u = <<" ">> THEN 1
    ELSE IF HasChar(u, CjkPunct) THEN 4
    ELSE IF HasChar(u, AsciiPunct) THEN 4
    ELSE IF HasChar(u, Digits) THEN 12
    ELSE IF HasChar(u, Letters) THEN Min(Len(u) * 10 + 6, 60)
    ELSE 20

\* index i is 1-based here: index >= chars.length - 3 is i - 1 >= n - 3
isLikelyExtendedChar(u, i, units, isLastChar) ==
    IF isLastChar THEN TRUE
    ELSE IF Len(u) = 1 /\ u[1] \in VocalChars /\ i - 1 >= Len(units) - 3 THEN TRUE
    ELSE FALSE

isLongPause(currentLineTime, nextTime) == nextTime - currentLineTime > 5000

----------------------------------------------------------------------------
(* generateCharTimings *)

NORMAL_CHAR_DURATION == 250

MIN_CHAR_DURATION == 120

MAX_CHAR_DURATION == 2000

\* nextLineTime ? ... : ...  (undefined and 0 are both falsy)
Truthy(opt) == opt # <<>> /\ opt[1] # 0

\* rawDuration = nextLineTime ? nextLineTime - line.time : 4
RawDuration(l, nxt) == IF Truthy(nxt) THEN nxt[1] - l.time ELSE 4000

\* hasLongPause = nextLineTime ? isLongPause(line.time + rawDuration, nextLineTime) : false
HasLongPause(l, nxt) ==
    IF Truthy(nxt) THEN isLongPause(l.time + RawDuration(l, nxt), nxt[1]) ELSE FALSE

RECURSIVE SumSeq(_)
SumSeq(s) == IF s = <<>> THEN 0 ELSE Head(s) + SumSeq(Tail(s))

Weights(units) == [k \in 1..Len(units) |-> getCharWeight(units[k])]

ExtendedPositions(units) ==
    [k \in 1..Len(units) |-> isLikelyExtendedChar(units[k], k, units, k = Len(units))]

\* Math.pow(i / den, 1.3) in thousandths, row den, column i + 1
PowTable13 ==
    << <<0, 1000>>,
       <<0, 406, 1000>>,
       <<0, 240, 590, 1000>>,
       <<0, 165, 406, 688, 1000>>,
       <<0, 123, 304, 515, 748, 1000>>,
       <<0, 97, 240, 406, 590, 789, 1000>> >>

\* Math.pow(i / den, 1.8) in thousandths, row den, column i + 1
PowTable18 ==
    << <<0, 1000>>,
       <<0, 287, 1000>>,
       <<0, 138, 482, 1000>>,
       <<0, 82, 287, 596, 1000>>,
       <<0, 55, 192, 399, 669, 1000>>,
       <<0, 40, 138, 287, 482, 720, 1000>> >>

\* the band of durationRatio = rawDuration / (totalWeight * NORMAL_CHAR_DURATION):
\* with the weight in twentieths the ratio is raw * 20 / (totalWeight * 250)
TempoBand(raw, totalWeight) ==
    IF raw * 200 < 7 * totalWeight * NORMAL_CHAR_DURATION THEN "fast"
    ELSE IF raw * 200 <= 13 * totalWeight * NORMAL_CHAR_DURATION THEN "normal"
    ELSE IF raw * 200 <= 20 * totalWeight * NORMAL_CHAR_DURATION THEN "slow"
    ELSE "verySlow"

\* timeDistribution[i] in thousandths, i 0-based as in the source, n = charCount
TimeDistribution(band, i, n, ext, longPause) ==
    LET den == IF n - 1 = 0 THEN 1 ELSE n - 1
        isLast == i = n - 1
    IN  IF band = "fast" THEN (IF isLast THEN 1150 ELSE 1000)
        ELSE IF band = "normal" THEN
            LET base == 1000 + (150 * i) \div den
            IN  IF ext THEN (base * 12) \div 10 ELSE base
        ELSE IF band = "slow" THEN
            LET base == 1000 + (PowTable13[den][i + 1] * 8) \div 10
            IN  IF ext THEN (base * 13) \div 10 ELSE base
        ELSE
            LET base0 == IF 2 * i < den THEN 850
                         ELSE 1000 + (PowTable18[den][2 * i - den + 1] * 15) \div 10
                base1 == IF ext THEN (base0 * 15) \div 10 ELSE base0
            IN  IF longPause /\ isLast THEN (base1 * 13) \div 10 ELSE base1

AdjustedWeights(units, raw, longPause) ==
    LET n == Len(units)
        w == Weights(units)
        ext == ExtendedPositions(units)
        band == TempoBand(raw, SumSeq(w))
    IN  [k \in 1..n |-> w[k] * TimeDistribution(band, k - 1, n, ext[k], longPause)]

Dur(u) == u.endTime - u.startTime

RECURSIVE AllocateFrom(_, _, _, _, _, _)
\* step 5: sequential allocation, each span clamped, the last unit ending at rawDuration
AllocateFrom(units, adj, total, raw, i, currentTime) ==
    IF i > Len(units) THEN <<>>
    ELSE LET charDuration == Max(MIN_CHAR_DURATION,
                                 Min((raw * adj[i]) \div total, MAX_CHAR_DURATION))
             endTime == IF i = Len(units) THEN raw ELSE currentTime + charDuration
         IN  <<[text |-> units[i], startTime |-> currentTime, endTime |-> endTime]>>
             \o AllocateFrom(units, adj, total, raw, i + 1, endTime)

\* the uniform fallback taken when totalWeight === 0
UniformFrom(units, raw) ==
    LET n == Len(units)
    IN  [k \in 1..n |-> [text |-> units[k],
                         startTime |-> ((k - 1) * raw) \div n,
                         endTime |-> (k * raw) \div n]]

Allocate(l, nxt) ==
    LET raw == RawDuration(l, nxt)
        units == splitTextToChars(l.text)
        adj == AdjustedWeights(units, raw, HasLongPause(l, nxt))
    IN  AllocateFrom(units, adj, SumSeq(adj), raw, 1, 0)

RECURSIVE BorrowLater(_, _, _, _, _)
\* pass 1, inner loop: what the later non-extended units could lend
BorrowLater(res, ext, j, needTime, borrowedTime) ==
    IF j > Len(res) \/ ~(borrowedTime < needTime) THEN borrowedTime
    ELSE IF ~ext[j] /\ Dur(res[j]) * 10 > MIN_CHAR_DURATION * 15
         THEN BorrowLater(res, ext, j + 1, needTime,
                          borrowedTime + Min(Dur(res[j]) - MIN_CHAR_DURATION,
                                             needTime - borrowedTime))
         ELSE BorrowLater(res, ext, j + 1, needTime, borrowedTime)

\* pass 1, body of the outer loop for unit i
ExtendUnit(res, ext, i) ==
    LET n == Len(res)
        minExtendedDuration == MIN_CHAR_DURATION * 2
        charDuration == Dur(res[i])
    IN  IF ext[i] /\ charDuration < minExtendedDuration /\ i < n
        THEN LET needTime == minExtendedDuration - charDuration
                 borrowedTime == BorrowLater(res, ext, i + 1, needTime, 0)
             IN  IF borrowedTime > 0
                 THEN [k \in 1..n |->
                         IF k = i THEN [res[k] EXCEPT !.endTime = @ + borrowedTime]
                         ELSE IF k > i /\ k < n
                              THEN [res[k] EXCEPT !.startTime = @ + borrowedTime,
                                                  !.endTime = @ + borrowedTime]
                         ELSE IF k > i
                              THEN [res[k] EXCEPT !.startTime = @ + borrowedTime]
                         ELSE res[k]]
                 ELSE res
        ELSE res

RECURSIVE ExtendedPassFrom(_, _, _)
ExtendedPassFrom(res, ext, i) ==
    IF i > Len(res) THEN res ELSE ExtendedPassFrom(ExtendUnit(res, ext, i), ext, i + 1)

\* pass 1 (optimisation 1): extended units get at least 2 * MIN_CHAR_DURATION
ExtendedPass(res, ext) == ExtendedPassFrom(res, ext, 1)

RECURSIVE BorrowEarlier(_, _, _, _, _)
\* pass 2, loop from the last-but-one unit backwards
BorrowEarlier(res, ext, i, needTime, borrowedTime) ==
    IF i < 1 \/ ~(borrowedTime < needTime) THEN res
    ELSE LET n == Len(res)
             charDuration == Dur(res[i])
             minDuration10 == IF ext[i] THEN MIN_CHAR_DURATION * 20
                              ELSE MIN_CHAR_DURATION * 15
         IN  IF charDuration * 10 > minDuration10
             THEN LET canBorrow == Min((charDuration * 10 - minDuration10) \div 10,
                                       needTime - borrowedTime)
                      borrowed2 == borrowedTime + canBorrow
                      res2 == [k \in 1..n |->
                                 IF k = i THEN [res[k] EXCEPT !.endTime = @ - canBorrow]
                                 ELSE IF k > i
                                      THEN [res[k] EXCEPT !.startTime = @ - borrowed2,
                                                          !.endTime = @ - borrowed2]
                                 ELSE res[k]]
                  IN  BorrowEarlier(res2, ext, i - 1, needTime, borrowed2)
             ELSE BorrowEarlier(res, ext, i - 1, needTime, borrowedTime)

\* pass 2 (optimisation 2): the last unit borrows from the units before it
LastCharPass(res, ext) ==
    LET n == Len(res)
    IN  IF n > 1
        THEN LET lastDuration == Dur(res[n])
                 minLastDuration10 == IF ext[n] THEN MIN_CHAR_DURATION * 25
                                      ELSE MIN_CHAR_DURATION * 15
             IN  IF lastDuration * 10 < minLastDuration10
                 THEN BorrowEarlier(res, ext, n - 1,
                                    minLastDuration10 \div 10 - lastDuration, 0)
                 ELSE res
        ELSE res

\* pass 3, body of the loop for unit i
CompressUnit(res, i) ==
    LET n == Len(res)
        punctDuration == Dur(res[i])
    IN  IF HasChar(res[i].text, CjkPunct \cup AsciiPunct)
           /\ punctDuration * 10 > MIN_CHAR_DURATION * 5
        THEN LET reduceTime == punctDuration - (MIN_CHAR_DURATION * 3) \div 10
             IN  [k \in 1..n |->
                    IF k = i THEN [res[k] EXCEPT !.endTime = @ - reduceTime]
                    ELSE IF k > i /\ k < n
                         THEN [res[k] EXCEPT !.startTime = @ - reduceTime,
                                             !.endTime = @ - reduceTime]
                    ELSE IF k > i
                         THEN [res[k] EXCEPT !.startTime = @ - reduceTime]
                    ELSE res[k]]
        ELSE res

RECURSIVE PunctuationPassFrom(_, _)
PunctuationPassFrom(res, i) ==
    IF i > Len(res) - 1 THEN res ELSE PunctuationPassFrom(CompressUnit(res, i), i + 1)

\* pass 3 (optimisation 3): punctuation is compressed, the time goes to later units
PunctuationPass(res) == PunctuationPassFrom(res, 1)

\* the whole function: the unit list it returns
generateCharTimings(l, nxt) ==
    IF l.text = <<>> THEN <<>>
    ELSE LET units == splitTextToChars(l.text)
             ext == ExtendedPositions(units)
         IN  IF SumSeq(Weights(units)) = 0
             THEN UniformFrom(units, RawDuration(l, nxt))
             ELSE PunctuationPass(LastCharPass(ExtendedPass(Allocate(l, nxt), ext), ext))

\* line.duration after the call: set once the text is known to be non-empty
DurationAfter(l, nxt) == IF l.text = <<>> THEN l.duration ELSE <<RawDuration(l, nxt)>>

----------------------------------------------------------------------------
(* Line-level (LRC) parser: parseMultipleTimestamps, filterSpecialMarks,    *)
(* parseMetaInfo, parseLyric                                                *)
(*                                                                          *)
(* A physical line is [tags, text]: the timestamp tags the regex            *)
(* \[(\d{2}):(\d{2})\.(\d{2,3})\] finds in it, in order, and what is left   *)
(* of the line once they are removed.  A tag is [min, sec, frac] with the   *)
(* two numbers of its two-digit groups and the digits of its fraction.      *)

Whitespace == {" "}

RECURSIVE TrimStart(_)
TrimStart(t) == IF t # <<>> /\ Head(t) \in Whitespace THEN TrimStart(Tail(t)) ELSE t

RECURSIVE TrimEnd(_)
TrimEnd(t) ==
    IF t # <<>> /\ t[Len(t)] \in Whitespace THEN TrimEnd(SubSeq(t, 1, Len(t) - 1)) ELSE t

\* String.prototype.trim
Trim(t) == TrimEnd(TrimStart(t))

RECURSIVE ParseInt(_)
\* parseInt of a digit sequence
ParseInt(ds) == IF ds = <<>> THEN 0 ELSE ParseInt(SubSeq(ds, 1, Len(ds) - 1)) * 10 + ds[Len(ds)]

\* time = minutes * 60 + seconds + milliseconds / 1000
TagTime(tag) == (tag.min * 60 + tag.sec) * 1000 + ParseInt(tag.frac)


\* an entry for the first tag only
parseMultipleTimestamps_firstTagOnly(l) ==
    [k \in 1..Min(Len(l.tags), 1) |-> [time |-> TagTime(l.tags[k]), text |-> Trim(l.text)]]

parseMultipleTimestamps(l) ==
    [k \in 1..Len(l.tags) |-> [time |-> TagTime(l.tags[k]), text |-> Trim(l.text)]]

\* lower case of the letters the model uses in both cases (the i flag)
Lower(c) == IF c = "M" THEN "m" ELSE IF c = "E" THEN "e" ELSE c

LowerText(t) == [k \in 1..Len(t) |-> Lower(t[k])]

\* the words of specialPatterns that may stand in optional parentheses
SpecialWords ==
    { <<"m", "u", "s", "i", "c">>, <<"i", "n", "t", "r", "o">>, <<"o", "u", "t", "r", "o">>,
      <<"b", "r", "i", "d", "g", "e">>, <<"jian", "zou">>, <<"qian", "zou">>,
      <<"wei", "zou">>, <<"s", "o", "l", "o">>,
      <<"i", "n", "s", "t", "r", "u", "m", "e", "n", "t", "a", "l">>, <<"ban", "zou">> }

OpenParens == {"(", "cjk_lparen"}

CloseParens == {")", "cjk_rparen"}


\* the patterns without their ^ and $ anchors
MatchesSpecialPattern_anywhere(t) ==
    \E i \in 1..Len(t), j \in 1..Len(t) :
        \/ LowerText(SubSeq(t, i, j)) \in SpecialWords \cup {<<"e", "n", "d">>}
        \/ SubSeq(t, i, j) \in {<<".", ".", ".">>, <<"cjk_ellipsis">>}

\* /^[\(（]?word[\)）]?$/i for one of the words, /^end$/i, /^\.\.\.$/, /^…$/
MatchesSpecialPattern(t) ==
    LET a == IF t # <<>> /\ Head(t) \in OpenParens THEN Tail(t) ELSE t
        b == IF a # <<>> /\ a[Len(a)] \in CloseParens THEN SubSeq(a, 1, Len(a) - 1) ELSE a
        inner == {t, a, b,
                  IF t # <<>> /\ t[Len(t)] \in CloseParens
                  THEN SubSeq(t, 1, Len(t) - 1) ELSE t}
    IN  \/ \E w \in inner : LowerText(w) \in SpecialWords
        \/ LowerText(t) = <<"e", "n", "d">>
        \/ t = <<".", ".", ".">>
        \/ t = <<"cjk_ellipsis">>

filterSpecialMarks(t) ==
    LET trimmedText == Trim(t)
    IN  IF trimmedText = <<>> THEN [text |-> <<>>, isSpecialMark |-> FALSE]
        ELSE IF MatchesSpecialPattern(trimmedText) THEN [text |-> <<>>, isSpecialMark |-> TRUE]
        ELSE [text |-> trimmedText, isSpecialMark |-> FALSE]

\* metaPatterns, in the order Object.entries gives them
MetaKeys == <<"lyricist", "composer", "arranger", "album">>

MetaLabel(key) ==
    IF key = "lyricist" THEN <<"zuo", "ci">>
    ELSE IF key = "composer" THEN <<"zuo", "qu">>
    ELSE IF key = "arranger" THEN <<"bian", "qu">>
    ELSE <<"zhuan", "ji">>

Colons == {":", "cjk_colon"}

RECURSIVE SkipSpaces(_, _)
SkipSpaces(t, i) == IF i <= Len(t) /\ t[i] \in Whitespace THEN SkipSpaces(t, i + 1) ELSE i

\* label\s*[:：]\s*(.+) matched with the label at position p: the capture, or <<>>
\* when it does not match there.  The capture is the rest of the content after the
\* colon, less the leading spaces \s* takes, and at least one character long.
MetaMatchAt(content, label, p) ==
    IF p + Len(label) - 1 <= Len(content) /\ SubSeq(content, p, p + Len(label) - 1) = label
    THEN LET c == SkipSpaces(content, p + Len(label))
         IN  IF c <= Len(content) /\ content[c] \in Colons /\ c < Len(content)
             THEN LET v == SkipSpaces(content, c + 1)
                  IN  <<SubSeq(content, IF v > Len(content) THEN Len(content) ELSE v,
                               Len(content))>>
             ELSE <<>>
    ELSE <<>>

RECURSIVE MetaMatchFrom(_, _, _)
\* content.match(pattern): the leftmost position where the pattern matches
MetaMatchFrom(content, label, p) ==
    IF p > Len(content) THEN <<>>
    ELSE IF MetaMatchAt(content, label, p) # <<>> THEN MetaMatchAt(content, label, p)
    ELSE MetaMatchFrom(content, label, p + 1)

\* the tag the regex of parseMetaInfo looks for: [00:00.00]
IsZeroTag(tag) == tag.min = 0 /\ tag.sec = 0 /\ tag.frac = <<0, 0>>

RECURSIVE MetaOfLine(_, _, _)
\* the for loop over metaPatterns with its break, for one line's content
MetaOfLine(meta, content, k) ==
    IF k > Len(MetaKeys) THEN meta
    ELSE LET m == MetaMatchFrom(content, MetaLabel(MetaKeys[k]), 1)
         IN  IF m # <<>> THEN [meta EXCEPT ![MetaKeys[k]] = <<Trim(m[1])>>]
             ELSE MetaOfLine(meta, content, k + 1)

EmptyMeta == [key \in {MetaKeys[k] : k \in 1..Len(MetaKeys)} |-> <<>>]

RECURSIVE MetaFrom(_, _, _)
MetaFrom(meta, lines, i) ==
    IF i > Len(lines) THEN meta
    ELSE IF \E k \in 1..Len(lines[i].tags) : IsZeroTag(lines[i].tags[k])
         THEN MetaFrom(MetaOfLine(meta, Trim(lines[i].text), 1), lines, i + 1)
         ELSE MetaFrom(meta, lines, i + 1)

parseMetaInfo(lines) == MetaFrom(EmptyMeta, lines, 1)

RECURSIVE EntriesOf(_)
\* every {time, text} parseMultipleTimestamps yields, over the lines in order
EntriesOf(lines) ==
    IF lines = <<>> THEN <<>>
    ELSE parseMultipleTimestamps(Head(lines)) \o EntriesOf(Tail(lines))

RECURSIVE InsertByTime(_, _)
\* stable insertion of x into the time-sorted sequence s
InsertByTime(s, x) ==
    IF s = <<>> THEN <<x>>
    ELSE IF s[Len(s)].time <= x.time THEN Append(s, x)
    ELSE Append(InsertByTime(SubSeq(s, 1, Len(s) - 1), x), s[Len(s)])

\* no sort: the entries in the order of the input
SortByTime_asGiven(s) == s

RECURSIVE SortByTime(_)
\* Array.prototype.sort((a, b) => a.time - b.time), which is stable
SortByTime(s) ==
    IF s = <<>> THEN <<>>
    ELSE InsertByTime(SortByTime(SubSeq(s, 1, Len(s) - 1)), s[Len(s)])

\* allTimePoints after the sort: the time of every entry
AllTimePoints(lines) ==
    LET sorted == SortByTime(EntriesOf(lines))
    IN  [k \in 1..Len(sorted) |-> sorted[k].time]

\* Array.prototype.indexOf, 1-based, 0 when absent
IndexOf(s, x) ==
    IF \E k \in 1..Len(s) : s[k] = x
    THEN CHOOSE k \in 1..Len(s) : s[k] = x /\ \A j \in 1..(k - 1) : s[j] # x
    ELSE 0

\* the boundary parseLyric passes for a line: the entry after the first
\* occurrence of the line's time in allTimePoints
NextTimePoint(points, time) ==
    LET currentTimeIndex == IndexOf(points, time)
    IN  IF currentTimeIndex >= 1 /\ currentTimeIndex < Len(points)
        THEN <<points[currentTimeIndex + 1]>>
        ELSE <<>>

\* first pass: the entries kept as rendered lines
RenderedEntries(entries) ==
    SelectSeq(entries,
              LAMBDA e : LET f == filterSpecialMarks(e.text)
                         IN  /\ ~(e.time = 0 /\ f.text = <<>> /\ ~f.isSpecialMark)
                             /\ ~f.isSpecialMark
                             /\ f.text # <<>>)

\* the line-level path of parseLyric: the lyrics list
parseLyric(lines) ==
    IF lines = <<>> THEN <<>>
    ELSE LET kept == SortByTime(RenderedEntries(EntriesOf(lines)))
             points == AllTimePoints(lines)
         IN  [k \in 1..Len(kept) |->
                LET l == [time |-> kept[k].time,
                          text |-> filterSpecialMarks(kept[k].text).text,
                          duration |-> <<>>]
                    nxt == NextTimePoint(points, l.time)
                IN  [time |-> l.time,
                     text |-> l.text,
                     duration |-> DurationAfter(l, nxt),
                     chars |-> generateCharTimings(l, nxt)]]

\* the metaInfo parseLyric returns on the line-level path
parseLyricMeta(lines) == IF lines = <<>> THEN EmptyMeta ELSE parseMetaInfo(lines)

----------------------------------------------------------------------------
(* Precise-timing (YRC) importer: parseYrcJsonLine, parseYrcLine            *)
(*                                                                          *)
(* A line of YRC text is one of                                             *)
(*   [kind |-> "blank"]     empty or white space only                       *)
(*   [kind |-> "comment"]   starts with [ch:                                *)
(*   [kind |-> "garbage"]   anything else without the [S,D] header          *)
(*   [kind |-> "tuple", S, D, cs]  the header and the tuples (c,d,r)text    *)
(*       in order; a tuple followed by no text is one the regex skips       *)
(*   [kind |-> "json", valid, t, c]  a line starting with {; valid says     *)
(*       whether JSON.parse accepts it, t is the optional number "t", c the *)
(*       optional array "c" of [tx, t] with t optional                      *)
(* A returned line is <<line>>, null is <<>>.                               *)

\* x || 0 for an optional number
OrZero(opt) == IF opt = <<>> THEN 0 ELSE opt[1]

\* !x for an optional number: undefined and 0 are falsy
Falsy(opt) == opt = <<>> \/ opt[1] = 0

RECURSIVE JsonCharsFrom_noAdvance(_, _, _)
\* the loop with the offset left where it was: every unit starts at the line start
JsonCharsFrom_noAdvance(c, i, currentOffsetMs) ==
    IF i > Len(c) THEN <<>>
    ELSE IF c[i].tx = <<>> THEN JsonCharsFrom_noAdvance(c, i + 1, currentOffsetMs)
    ELSE <<[text |-> c[i].tx,
            startTime |-> currentOffsetMs,
            endTime |-> currentOffsetMs + OrZero(c[i].t)]>>
         \o JsonCharsFrom_noAdvance(c, i + 1, currentOffsetMs)

RECURSIVE JsonCharsFrom(_, _, _)
\* the for loop of parseYrcJsonLine: the units of c from index i at offset currentOffsetMs
JsonCharsFrom(c, i, currentOffsetMs) ==
    IF i > Len(c) THEN <<>>
    ELSE IF c[i].tx = <<>> THEN JsonCharsFrom(c, i + 1, currentOffsetMs)
    ELSE LET charDurationMs == OrZero(c[i].t)
         IN  <<[text |-> c[i].tx,
                startTime |-> currentOffsetMs,
                endTime |-> currentOffsetMs + charDurationMs]>>
             \o JsonCharsFrom(c, i + 1, currentOffsetMs + charDurationMs)

RECURSIVE JsonOffsetAfter(_, _, _)
\* currentOffsetMs when the loop ends
JsonOffsetAfter(c, i, currentOffsetMs) ==
    IF i > Len(c) THEN currentOffsetMs
    ELSE IF c[i].tx = <<>> THEN JsonOffsetAfter(c, i + 1, currentOffsetMs)
    ELSE JsonOffsetAfter(c, i + 1, currentOffsetMs + OrZero(c[i].t))

UnitTexts(units) == [k \in 1..Len(units) |-> units[k].text]

parseYrcJsonLine(l) ==
    IF l.kind # "json" \/ ~l.valid THEN <<>>
    ELSE IF Falsy(l.t) \/ l.c = <<>> THEN <<>>
    ELSE LET units == JsonCharsFrom(l.c[1], 1, 0)
         IN  IF units = <<>> THEN <<>>
             ELSE <<[time |-> l.t[1],
                     text |-> Join(UnitTexts(units)),
                     duration |-> <<JsonOffsetAfter(l.c[1], 1, 0)>>,
                     chars |-> units]>>

RECURSIVE TupleCharsFrom_noClamp(_, _, _)
\* the loop without Math.max(0, ...): the offset may go negative
TupleCharsFrom_noClamp(cs, i, lineStartTimeMs) ==
    IF i > Len(cs) THEN <<>>
    ELSE IF cs[i].text = <<>> THEN TupleCharsFrom_noClamp(cs, i + 1, lineStartTimeMs)
    ELSE <<[text |-> cs[i].text,
            startTime |-> cs[i].c - lineStartTimeMs,
            endTime |-> cs[i].c - lineStartTimeMs + cs[i].d]>>
         \o TupleCharsFrom_noClamp(cs, i + 1, lineStartTimeMs)

RECURSIVE TupleCharsFrom(_, _, _)
\* the while loop of parseYrcLine over the tuples the regex matches
TupleCharsFrom(cs, i, lineStartTimeMs) ==
    IF i > Len(cs) THEN <<>>
    ELSE IF cs[i].text = <<>> THEN TupleCharsFrom(cs, i + 1, lineStartTimeMs)
    ELSE LET relativeOffsetMs == Max(0, cs[i].c - lineStartTimeMs)
         IN  <<[text |-> cs[i].text,
                startTime |-> relativeOffsetMs,
                endTime |-> relativeOffsetMs + cs[i].d]>>
             \o TupleCharsFrom(cs, i + 1, lineStartTimeMs)

parseYrcLine(l) ==
    IF l.kind \in {"blank", "comment"} THEN <<>>
    ELSE IF l.kind = "json" THEN parseYrcJsonLine(l)
    ELSE IF l.kind # "tuple" THEN <<>>
    ELSE LET units == TupleCharsFrom(l.cs, 1, l.S)
         IN  IF units = <<>> THEN <<>>
             ELSE <<[time |-> l.S,
                     text |-> Join(UnitTexts(units)),
                     duration |-> <<l.D>>,
                     chars |-> units]>>

\* parseYrc, first loop: the lines parseYrcLine returns that are neither a special
\* mark nor blank once filtered (the importer's filterSpecialMarks is the same
\* function as the line-level parser's)

RECURSIVE YrcKeptFrom_filteredText(_, _)
\* the kept lines with the filtered text in place of the text of the line
YrcKeptFrom_filteredText(lines, i) ==
    IF i > Len(lines) THEN <<>>
    ELSE LET parsed == parseYrcLine(lines[i])
         IN  IF parsed = <<>> THEN YrcKeptFrom_filteredText(lines, i + 1)
             ELSE LET f == filterSpecialMarks(parsed[1].text)
                  IN  IF f.isSpecialMark \/ f.text = <<>>
                      THEN YrcKeptFrom_filteredText(lines, i + 1)
                      ELSE <<[parsed[1] EXCEPT !.text = f.text]>>
                           \o YrcKeptFrom_filteredText(lines, i + 1)

RECURSIVE YrcKeptFrom(_, _)
YrcKeptFrom(lines, i) ==
    IF i > Len(lines) THEN <<>>
    ELSE LET parsed == parseYrcLine(lines[i])
         IN  IF parsed = <<>> THEN YrcKeptFrom(lines, i + 1)
             ELSE LET f == filterSpecialMarks(parsed[1].text)
                  IN  IF f.isSpecialMark THEN YrcKeptFrom(lines, i + 1)
                      ELSE IF f.text # <<>> THEN <<parsed[1]>> \o YrcKeptFrom(lines, i + 1)
                      ELSE YrcKeptFrom(lines, i + 1)

\* parseYrc on the lines of a YRC text; the empty text is <<>>
parseYrc(lines) ==
    IF lines = <<>> THEN <<>> ELSE SortByTime(YrcKeptFrom(lines, 1))

----------------------------------------------------------------------------
(* matchTranslationLyrics, isYrcFormat and parseLyric with all its arguments *)
(*                                                                          *)
(* A text argument is the sequence of its lines; "" and undefined are <<>>. *)
(* The optional ttext of a line is <<>> or <<text>>.                        *)

\* tlyricMap.set(time, text): a Map keeps the position of a key that is set again
MapSet(map, time, txt) ==
    IF \E k \in 1..Len(map) : map[k].time = time
    THEN [k \in 1..Len(map) |-> IF map[k].time = time THEN [time |-> time, text |-> txt]
                                 ELSE map[k]]
    ELSE Append(map, [time |-> time, text |-> txt])

RECURSIVE TlyricMapFrom(_, _, _)
\* the first loop of matchTranslationLyrics over the entries of the translation text
TlyricMapFrom(map, entries, i) ==
    IF i > Len(entries) THEN map
    ELSE IF entries[i].text # <<>>
         THEN TlyricMapFrom(MapSet(map, entries[i].time, entries[i].text), entries, i + 1)
         ELSE TlyricMapFrom(map, entries, i + 1)

Abs(x) == IF x < 0 THEN -x ELSE x

RECURSIVE FuzzyMatchFrom(_, _, _)
\* for (const [time, text] of tlyricMap.entries()) with its break
FuzzyMatchFrom(map, time, i) ==
    IF i > Len(map) THEN <<>>
    ELSE IF Abs(map[i].time - time) < 500 THEN <<map[i].text>>
    ELSE FuzzyMatchFrom(map, time, i + 1)

\* the ttext matchTranslationLyrics leaves on a line at the given time
TtextFor(map, time) ==
    IF \E k \in 1..Len(map) : map[k].time = time
    THEN <<map[CHOOSE k \in 1..Len(map) : map[k].time = time].text>>
    ELSE FuzzyMatchFrom(map, time, 1)

\* the lyrics after matchTranslationLyrics(lyrics, tlyricText)
matchTranslationLyrics(ls, tlines) ==
    LET tlyricMap == TlyricMapFrom(<<>>, EntriesOf(tlines), 1)
    IN  [k \in 1..Len(ls) |->
           [time |-> ls[k].time, text |-> ls[k].text, duration |-> ls[k].duration,
            chars |-> ls[k].chars, ttext |-> TtextFor(tlyricMap, ls[k].time)]]

\* /^\[(\d+),(\d+)\]\((\d+),(\d+),\d+\)/m: some line is a header followed by a tuple
isYrcFormat(lines) ==
    \E k \in 1..Len(lines) : lines[k].kind = "tuple" /\ lines[k].cs # <<>>

\* parseLyric(lyricText, tlyricText, yrcText, yrcsText): lyrics and metaInfo
parseLyricResult(l, tl, y, ys) ==
    LET yrcSrc == IF y # <<>> THEN y ELSE ys
    IN  IF yrcSrc # <<>> /\ isYrcFormat(yrcSrc)
        THEN LET ls == parseYrc(yrcSrc)
             IN  [lyrics |-> IF tl # <<>> /\ Len(ls) > 0
                             THEN matchTranslationLyrics(ls, tl) ELSE ls,
                  metaInfo |-> IF l # <<>> THEN parseMetaInfo(l) ELSE EmptyMeta]
        ELSE IF l = <<>> THEN [lyrics |-> <<>>, metaInfo |-> EmptyMeta]
        ELSE [lyrics |-> IF tl # <<>> THEN matchTranslationLyrics(parseLyric(l), tl)
                         ELSE parseLyric(l),
              metaInfo |-> parseMetaInfo(l)]

----------------------------------------------------------------------------
(* Query interface: getCharHighlightClass, getCharGradientProgress          *)
(*                                                                          *)
(* A query is [lineIndex, currentLyricIndex, currentTime, line, char]; of   *)
(* the line only its time is read, of the unit its startTime and endTime.   *)
(* The gradient progress, a percentage with two decimals, is represented by *)
(* its number of hundredths of a percent: 100 is 10000.                     *)

\* const BUFFER = 0.05
BUFFER == 50

\* the function with no buffer on either boundary
getCharHighlightClass_noBuffer(q) ==
    IF q.lineIndex # q.currentLyricIndex THEN ""
    ELSE LET relativeTime == q.currentTime - q.line.time
         IN  IF relativeTime < q.char.startTime THEN ""
             ELSE IF relativeTime >= q.char.endTime THEN "char-sung"
             ELSE "char-singing"

getCharHighlightClass(q) ==
    IF q.lineIndex # q.currentLyricIndex THEN ""
    ELSE LET relativeTime == q.currentTime - q.line.time
         IN  IF relativeTime < q.char.startTime - BUFFER THEN ""
             ELSE IF relativeTime >= q.char.endTime + BUFFER THEN "char-sung"
             ELSE "char-singing"

\* Math.round(num / den) for num >= 0, den > 0
RoundDiv(num, den) ==
    LET q == num \div den
        r == num % den
    IN  IF 2 * r >= den THEN q + 1 ELSE q

\* Math.round(easeOutQuad(elapsed / charDuration) * 10000), where
\* easeOutQuad(t) = t * (2 - t) = elapsed * (2 * charDuration - elapsed) / charDuration^2
easeOutQuad(elapsed, charDuration) ==
    RoundDiv(elapsed * (2 * charDuration - elapsed) * 10000, charDuration * charDuration)


\* a finished unit reported as not filled, like the units of the other lines
getCharGradientProgress_resetAtEnd(q) ==
    IF q.lineIndex # q.currentLyricIndex THEN 0
    ELSE LET relativeTime == q.currentTime - q.line.time
         IN  IF relativeTime < q.char.startTime \/ relativeTime >= q.char.endTime THEN 0
             ELSE Min(Max(easeOutQuad(relativeTime - q.char.startTime,
                                      q.char.endTime - q.char.startTime), 0), 10000)

getCharGradientProgress(q) ==
    IF q.lineIndex # q.currentLyricIndex THEN 0
    ELSE LET relativeTime == q.currentTime - q.line.time
         IN  IF relativeTime < q.char.startTime THEN 0
             ELSE IF relativeTime >= q.char.endTime THEN 10000
             ELSE LET charDuration == q.char.endTime - q.char.startTime
                      elapsed == relativeTime - q.char.startTime
                      progress == easeOutQuad(elapsed, charDuration)
                  IN  Min(Max(progress, 0), 10000)

----------------------------------------------------------------------------
(* Values of the variables an operation does not use *)

NoLine == [time |-> 0, text |-> <<>>, duration |-> <<>>]

NoTagLine == [tags |-> <<>>, text |-> <<>>]

NoYrcLine == [kind |-> "blank"]

SegIdle == text = <<>> /\ chars = <<>>

SynthIdle == line = NoLine /\ nextLineTime = <<>> /\ result = <<>>

TagIdle == tagLine = NoTagLine /\ tagResults = <<>>

LrcIdle ==
    /\ lyricText = <<>> /\ tlyricText = <<>> /\ yrcText = <<>> /\ yrcsText = <<>>
    /\ lyrics = <<>> /\ metaInfo = EmptyMeta

YrcIdle == yrcLine = NoYrcLine /\ yrcParsed = <<>>

YrcTextIdle == yrcSource = <<>> /\ yrcLyrics = <<>>

NoQuery ==
    [lineIndex |-> 0, currentLyricIndex |-> 0, currentTime |-> 0,
     line |-> [time |-> 0], char |-> [startTime |-> 0, endTime |-> 0]]

QueryIdle == query = NoQuery /\ highlightClass = <<>> /\ gradientProgress = <<>>

WeightIdle == weighed = <<>> /\ weights = <<>>

MarkIdle == markText = <<>> /\ markResult = <<>>

TimerIdle ==
    /\ now = 0 /\ invokeTime = 0 /\ animationFrameId = <<>> /\ timeoutId = <<>>
    /\ callback = <<>> /\ pendingFrames = {} /\ pendingTimeouts = {} /\ lastHandle = 0

NoProps == [lyrics |-> <<>>, currentTime |-> 0, lyricOffset |-> 0]

RenderIdle == props = NoProps /\ currentLyricIndex = -1

MoreIdle == MarkIdle /\ TimerIdle /\ RenderIdle

RestIdle == YrcTextIdle /\ QueryIdle /\ WeightIdle /\ MoreIdle

RECURSIVE SeqsUpTo(_, _)
\* the sequences of at most n elements of S
SeqsUpTo(S, n) ==
    IF n = 0 THEN {<<>>}
    ELSE LET shorter == SeqsUpTo(S, n - 1)
         IN  shorter \cup {Append(q, x) : q \in {r \in shorter : Len(r) = n - 1}, x \in S}

----------------------------------------------------------------------------
(* Segmenter specification: splitTextToChars *)

InitSeg ==
    /\ pc = "seg_start"
    /\ text \in Texts
    /\ chars = <<>>
    /\ SynthIdle /\ TagIdle /\ LrcIdle /\ YrcIdle /\ RestIdle

SplitTextToChars ==
    /\ pc = "seg_start"
    /\ chars' = splitTextToChars(text)
    /\ pc' = "seg_done"
    /\ UNCHANGED <<text, synthVars, tagVars, lrcVars, yrcVars, restVars>>

NextSeg == SplitTextToChars

SpecSeg == InitSeg /\ [][NextSeg]_vars

----------------------------------------------------------------------------
(* Synthesizer specification: generateCharTimings, one action per stage *)

\* line start times and next boundaries the synthesizer is called with
SynthLineTimes == {0, 10000}

SynthNextTimes ==
    {<<>>, <<0>>, <<350>>, <<560>>, <<1000>>, <<5500>>, <<10000>>, <<10500>>, <<12000>>}

\* the boundary is absent, 0, or a time point not before the line, as in parseLyric
InitSynth ==
    /\ pc = "gen_start"
    /\ line \in [time : SynthLineTimes, text : Texts, duration : {<<>>}]
    /\ nextLineTime \in SynthNextTimes
    /\ IF Truthy(nextLineTime) THEN nextLineTime[1] >= line.time ELSE TRUE
    /\ result = <<>>
    /\ SegIdle /\ TagIdle /\ LrcIdle /\ YrcIdle /\ RestIdle

\* lines 297-441: the early return, duration, segmentation, weights, allocation
GenAllocate ==
    /\ pc = "gen_start"
    /\ line' = [line EXCEPT !.duration = DurationAfter(line, nextLineTime)]
    /\ IF line.text = <<>>
       THEN /\ result' = <<>>
            /\ pc' = "gen_done"
       ELSE IF SumSeq(Weights(splitTextToChars(line.text))) = 0
            THEN /\ result' = UniformFrom(splitTextToChars(line.text),
                                          RawDuration(line, nextLineTime))
                 /\ pc' = "gen_done"
            ELSE /\ result' = Allocate(line, nextLineTime)
                 /\ pc' = "gen_allocated"
    /\ UNCHANGED <<nextLineTime, segVars, tagVars, lrcVars, yrcVars, restVars>>

\* lines 445-483
GenExtendedPass ==
    /\ pc = "gen_allocated"
    /\ result' = ExtendedPass(result, ExtendedPositions(splitTextToChars(line.text)))
    /\ pc' = "gen_extended"
    /\ UNCHANGED <<line, nextLineTime, segVars, tagVars, lrcVars, yrcVars, restVars>>

\* lines 486-523
GenLastCharPass ==
    /\ pc = "gen_extended"
    /\ result' = LastCharPass(result, ExtendedPositions(splitTextToChars(line.text)))
    /\ pc' = "gen_last"
    /\ UNCHANGED <<line, nextLineTime, segVars, tagVars, lrcVars, yrcVars, restVars>>

\* lines 526-551
GenPunctuationPass ==
    /\ pc = "gen_last"
    /\ result' = PunctuationPass(result)
    /\ pc' = "gen_done"
    /\ UNCHANGED <<line, nextLineTime, segVars, tagVars, lrcVars, yrcVars, restVars>>

NextSynth == GenAllocate \/ GenExtendedPass \/ GenLastCharPass \/ GenPunctuationPass

SpecSynth == InitSynth /\ [][NextSynth]_vars

----------------------------------------------------------------------------
(* Timestamp specification: parseMultipleTimestamps *)

TagFractions == {<<0, 0>>, <<0, 5>>, <<5, 0>>, <<5, 0, 0>>, <<0, 5, 0>>, <<1, 0, 0>>}

Tags == [min : {0, 1}, sec : {0, 1, 59}, frac : TagFractions]

TagTexts == {<<>>, <<"han", " ", "a">>, <<" ", "han", " ">>}

InitTags ==
    /\ pc = "tag_start"
    /\ tagLine \in [tags : SeqsUpTo(Tags, MaxTags), text : TagTexts]
    /\ tagResults = <<>>
    /\ SegIdle /\ SynthIdle /\ LrcIdle /\ YrcIdle /\ RestIdle

ParseMultipleTimestamps ==
    /\ pc = "tag_start"
    /\ tagResults' = parseMultipleTimestamps(tagLine)
    /\ pc' = "tag_done"
    /\ UNCHANGED <<tagLine, segVars, synthVars, lrcVars, yrcVars, restVars>>

NextTags == ParseMultipleTimestamps

SpecTags == InitTags /\ [][NextTags]_vars

----------------------------------------------------------------------------
(* Line-level specification: parseLyric on LRC text *)

Tag(m, sec, frac) == [min |-> m, sec |-> sec, frac |-> frac]

\* the physical lines the bounded LRC texts are made of
LrcLines ==
    { \* [00:00.00]zuo ci: han
      [tags |-> <<Tag(0, 0, <<0, 0>>)>>, text |-> <<"zuo", "ci", ":", " ", "han">>],
      \* [00:00.00]han
      [tags |-> <<Tag(0, 0, <<0, 0>>)>>, text |-> <<"han">>],
      \* [00:10.00]han han han
      [tags |-> <<Tag(0, 10, <<0, 0>>)>>, text |-> <<"han", "han", "han">>],
      \* [00:10.200]han a
      [tags |-> <<Tag(0, 10, <<2, 0, 0>>)>>, text |-> <<"han", " ", "a">>],
      \* [00:15.00](Music)
      [tags |-> <<Tag(0, 15, <<0, 0>>)>>, text |-> <<"(", "M", "u", "s", "i", "c", ")">>],
      \* [00:15.00][00:20.00] ah
      [tags |-> <<Tag(0, 15, <<0, 0>>), Tag(0, 20, <<0, 0>>)>>, text |-> <<" ", "ah">>],
      \* [00:20.00]jian zou
      [tags |-> <<Tag(0, 20, <<0, 0>>)>>, text |-> <<"jian", "zou">>],
      \* [00:12.00]
      [tags |-> <<Tag(0, 12, <<0, 0>>)>>, text |-> <<>>],
      \* han (no tag)
      [tags |-> <<>>, text |-> <<"han">>] }

InitLrc ==
    /\ pc = "lrc_start"
    /\ lyricText \in SeqsUpTo(LrcLines, MaxLines)
    /\ tlyricText = <<>> /\ yrcText = <<>> /\ yrcsText = <<>>
    /\ lyrics = <<>>
    /\ metaInfo = EmptyMeta
    /\ SegIdle /\ SynthIdle /\ TagIdle /\ YrcIdle /\ RestIdle

ParseLyric ==
    /\ pc = "lrc_start"
    /\ lyrics' = parseLyricResult(lyricText, tlyricText, yrcText, yrcsText).lyrics
    /\ metaInfo' = parseLyricResult(lyricText, tlyricText, yrcText, yrcsText).metaInfo
    /\ pc' = "lrc_done"
    /\ UNCHANGED <<lyricText, tlyricText, yrcText, yrcsText, segVars, synthVars, tagVars, yrcVars, restVars>>

NextLrc == ParseLyric

SpecLrc == InitLrc /\ [][NextLrc]_vars

----------------------------------------------------------------------------
(* Importer specification: parseYrcLine and parseYrcJsonLine on one line *)

YrcTupleEntries == [c : {500, 1000, 1300}, d : {0, 300}, text : {<<>>, <<"han">>, <<"a", "b">>}]

YrcJsonEntries == [tx : {<<>>, <<"han">>}, t : {<<>>, <<200>>, <<300>>}]

YrcLines ==
    {[kind |-> "blank"], [kind |-> "comment"], [kind |-> "garbage"]}
    \cup [kind : {"tuple"}, S : {0, 1000}, D : {2000},
          cs : SeqsUpTo(YrcTupleEntries, MaxYrcChars)]
    \cup [kind : {"json"}, valid : BOOLEAN, t : {<<>>, <<0>>, <<5000>>},
          c : {<<>>} \cup {<<a>> : a \in SeqsUpTo(YrcJsonEntries, MaxYrcChars)}]

InitYrc ==
    /\ pc = "yrc_start"
    /\ yrcLine \in YrcLines
    /\ yrcParsed = <<>>
    /\ SegIdle /\ SynthIdle /\ TagIdle /\ LrcIdle /\ RestIdle

ParseYrcLine ==
    /\ pc = "yrc_start"
    /\ yrcParsed' = parseYrcLine(yrcLine)
    /\ pc' = "yrc_line_done"
    /\ UNCHANGED <<yrcLine, segVars, synthVars, tagVars, lrcVars, restVars>>

ParseYrcJsonLine ==
    /\ pc = "yrc_start"
    /\ yrcParsed' = parseYrcJsonLine(yrcLine)
    /\ pc' = "yrc_json_done"
    /\ UNCHANGED <<yrcLine, segVars, synthVars, tagVars, lrcVars, restVars>>

NextYrc == ParseYrcLine \/ ParseYrcJsonLine

SpecYrc == InitYrc /\ [][NextYrc]_vars

----------------------------------------------------------------------------
(* Importer specification: parseYrc on a whole YRC text *)

\* most lines of a YRC text
MaxYrcLines == 3

YrcUnit(c, d, t) == [c |-> c, d |-> d, text |-> t]

\* the lines the bounded YRC texts are made of
YrcTextLines ==
    { [kind |-> "blank"], [kind |-> "comment"], [kind |-> "garbage"],
      \* [2000,900](2000,300,0)han(2300,600,0)ah
      [kind |-> "tuple", S |-> 2000, D |-> 900,
       cs |-> <<YrcUnit(2000, 300, <<"han">>), YrcUnit(2300, 600, <<"ah">>)>>],
      \* [1000,500](1000,500,0)han
      [kind |-> "tuple", S |-> 1000, D |-> 500, cs |-> <<YrcUnit(1000, 500, <<"han">>)>>],
      \* [1000,400](1000,400,0)ab
      [kind |-> "tuple", S |-> 1000, D |-> 400, cs |-> <<YrcUnit(1000, 400, <<"a", "b">>)>>],
      \* [1500,400] with no tuple the regex matches
      [kind |-> "tuple", S |-> 1500, D |-> 400, cs |-> <<>>],
      \* [3000,800](3000,400,0)jian(3400,400,0)zou
      [kind |-> "tuple", S |-> 3000, D |-> 800,
       cs |-> <<YrcUnit(3000, 400, <<"jian">>), YrcUnit(3400, 400, <<"zou">>)>>],
      \* [4000,500](4000,500,0) followed by one space
      [kind |-> "tuple", S |-> 4000, D |-> 500, cs |-> <<YrcUnit(4000, 500, <<" ">>)>>],
      \* {"t":500,"c":[{"tx":"han","t":200}]}
      [kind |-> "json", valid |-> TRUE, t |-> <<500>>,
       c |-> << <<[tx |-> <<"han">>, t |-> <<200>>]>> >>],
      \* {"t":0,"c":[{"tx":"han","t":200}]}
      [kind |-> "json", valid |-> TRUE, t |-> <<0>>,
       c |-> << <<[tx |-> <<"han">>, t |-> <<200>>]>> >>],
      \* {"t":700,"c":[{"tx":"","t":200}]}
      [kind |-> "json", valid |-> TRUE, t |-> <<700>>,
       c |-> << <<[tx |-> <<>>, t |-> <<200>>]>> >>],
      \* {"t":700,"c":[{"tx":"han","t":200}]  (the closing brace is missing)
      [kind |-> "json", valid |-> FALSE, t |-> <<700>>,
       c |-> << <<[tx |-> <<"han">>, t |-> <<200>>]>> >>] }

InitYrcText ==
    /\ pc = "yrc_text_start"
    /\ yrcSource \in SeqsUpTo(YrcTextLines, MaxYrcLines)
    /\ yrcLyrics = <<>>
    /\ SegIdle /\ SynthIdle /\ TagIdle /\ LrcIdle /\ YrcIdle /\ QueryIdle /\ WeightIdle
    /\ MoreIdle

ParseYrc ==
    /\ pc = "yrc_text_start"
    /\ yrcLyrics' = parseYrc(yrcSource)
    /\ pc' = "yrc_text_done"
    /\ UNCHANGED <<yrcSource, segVars, synthVars, tagVars, lrcVars, yrcVars,
                   queryVars, weightVars, moreVars>>

NextYrcText == ParseYrc

SpecYrcText == InitYrcText /\ [][NextYrcText]_vars

----------------------------------------------------------------------------
(* Whole-parser specification: parseLyric with translation and YRC texts *)

\* most lines of a translation text
MaxTLines == 2

\* the LRC texts given as lyricText
ParseLyricTexts ==
    { <<>>,
      \* [00:10.00]han han han
      << [tags |-> <<Tag(0, 10, <<0, 0>>)>>, text |-> <<"han", "han", "han">>] >>,
      \* [00:20.00]jian zou / [00:10.900]han a / [00:10.00]han han han
      << [tags |-> <<Tag(0, 20, <<0, 0>>)>>, text |-> <<"jian", "zou">>],
         [tags |-> <<Tag(0, 10, <<9, 0, 0>>)>>, text |-> <<"han", " ", "a">>],
         [tags |-> <<Tag(0, 10, <<0, 0>>)>>, text |-> <<"han", "han", "han">>] >>,
      \* [00:00.00]zuo ci: han / [00:15.00][00:10.00]ah
      << [tags |-> <<Tag(0, 0, <<0, 0>>)>>, text |-> <<"zuo", "ci", ":", " ", "han">>],
         [tags |-> <<Tag(0, 15, <<0, 0>>), Tag(0, 10, <<0, 0>>)>>, text |-> <<"ah">>] >> }

\* the lines the bounded translation texts are made of
TlyricLines ==
    { [tags |-> <<Tag(0, 10, <<0, 0>>)>>, text |-> <<"a">>],
      [tags |-> <<Tag(0, 10, <<0, 0>>)>>, text |-> <<"b">>],
      [tags |-> <<Tag(0, 10, <<0, 0>>)>>, text |-> <<>>],
      [tags |-> <<Tag(0, 10, <<3, 0, 0>>)>>, text |-> <<"c">>],
      [tags |-> <<Tag(0, 10, <<3, 0, 0>>)>>, text |-> <<"h">>],
      [tags |-> <<Tag(0, 10, <<5, 0, 0>>)>>, text |-> <<"d">>],
      [tags |-> <<Tag(0, 10, <<9, 0>>)>>, text |-> <<"e">>],
      [tags |-> <<Tag(0, 9, <<7, 0, 0>>)>>, text |-> <<" ", "i", " ">>],
      [tags |-> <<Tag(0, 20, <<0, 0>>), Tag(0, 0, <<0, 0>>)>>, text |-> <<"m">>],
      [tags |-> <<>>, text |-> <<"n">>] }

\* the YRC texts given as yrcText: none, tuple lines out of order, JSON lines only,
\* a text that is not in the format
ParseYrcTexts ==
    { <<>>,
      \* [10900,500](10900,500,0)han / [10000,600](10000,300,0)a(10300,300,0)b
      << [kind |-> "tuple", S |-> 10900, D |-> 500,
          cs |-> <<YrcUnit(10900, 500, <<"han">>)>>],
         [kind |-> "tuple", S |-> 10000, D |-> 600,
          cs |-> <<YrcUnit(10000, 300, <<"a">>), YrcUnit(10300, 300, <<"b">>)>>] >>,
      \* {"t":10000,"c":[{"tx":"han","t":200}]}
      << [kind |-> "json", valid |-> TRUE, t |-> <<10000>>,
          c |-> << <<[tx |-> <<"han">>, t |-> <<200>>]>> >>] >>,
      << [kind |-> "garbage"] >> }

\* the YRC texts given as yrcsText
ParseYrcsTexts ==
    { <<>>,
      \* [20000,400](20000,400,0)ah / {"t":10000,"c":[{"tx":"han","t":200}]}
      << [kind |-> "tuple", S |-> 20000, D |-> 400, cs |-> <<YrcUnit(20000, 400, <<"ah">>)>>],
         [kind |-> "json", valid |-> TRUE, t |-> <<10000>>,
          c |-> << <<[tx |-> <<"han">>, t |-> <<200>>]>> >>] >>,
      \* [30000,500](30000,200,0)a (30200,300,0)b  (a space ends each unit)
      << [kind |-> "tuple", S |-> 30000, D |-> 500,
          cs |-> <<YrcUnit(30000, 200, <<"a", " ">>), YrcUnit(30200, 300, <<"b", " ">>)>>] >> }

InitParse ==
    /\ pc = "lrc_start"
    /\ lyricText \in ParseLyricTexts
    /\ tlyricText \in SeqsUpTo(TlyricLines, MaxTLines)
    /\ yrcText \in ParseYrcTexts
    /\ yrcsText \in ParseYrcsTexts
    /\ lyrics = <<>>
    /\ metaInfo = EmptyMeta
    /\ SegIdle /\ SynthIdle /\ TagIdle /\ YrcIdle /\ RestIdle

SpecParse == InitParse /\ [][NextLrc]_vars

----------------------------------------------------------------------------
(* Weight specification: getCharWeight on two units *)

\* longest word, in letters, that is weighed
MaxWordLen == 7

\* the units weighed: the space, every punctuation mark of the model, CJK
\* characters, words of one letter repeated, a mixed-case word, digits, a word
\* with a digit
WeightUnits ==
    {<<" ">>, <<"han">>, <<"ah">>, <<"M", "e">>, <<"1">>, <<"5", "0">>, <<"a", "1">>}
    \cup {<<p>> : p \in CjkPunct \cup AsciiPunct}
    \cup {[k \in 1..n |-> "a"] : n \in 1..MaxWordLen}

InitWeight ==
    /\ pc = "weight_start"
    /\ weighed \in WeightUnits \X WeightUnits
    /\ weights = <<>>
    /\ SegIdle /\ SynthIdle /\ TagIdle /\ LrcIdle /\ YrcIdle /\ YrcTextIdle /\ QueryIdle
    /\ MoreIdle

GetCharWeight ==
    /\ pc = "weight_start"
    /\ weights' = <<getCharWeight(weighed[1]), getCharWeight(weighed[2])>>
    /\ pc' = "weight_done"
    /\ UNCHANGED <<weighed, segVars, synthVars, tagVars, lrcVars, yrcVars,
                   yrcTextVars, queryVars, moreVars>>

NextWeight == GetCharWeight

SpecWeight == InitWeight /\ [][NextWeight]_vars

----------------------------------------------------------------------------
(* Query specification: the two per-unit queries of the renderer *)

\* playback times: before, at and around the boundaries of the units below
QueryTimes ==
    {0, 199, 200, 249, 250, 299, 300, 349, 350, 500, 700, 749, 750,
     9000, 9949, 9950, 10000, 10100, 10199, 10200, 10210, 10239, 10240, 10249, 10250,
     10299, 10300, 10349, 10350, 10400, 10699, 10700, 10749, 10750, 20000}

\* units: empty span at 0, [0, 0.3], [0.3, 0.7], and the unit [0.24, 0.2] the
\* synthesizer returns for the last of three units of a 0.2 s line
QueryChars ==
    { [startTime |-> 0, endTime |-> 0], [startTime |-> 0, endTime |-> 300],
      [startTime |-> 300, endTime |-> 700], [startTime |-> 240, endTime |-> 200] }

InitQuery ==
    /\ pc = "query_start"
    /\ query \in [lineIndex : {0, 1}, currentLyricIndex : {0, 1}, currentTime : QueryTimes,
                  line : [time : {0, 10000}], char : QueryChars]
    /\ highlightClass = <<>>
    /\ gradientProgress = <<>>
    /\ SegIdle /\ SynthIdle /\ TagIdle /\ LrcIdle /\ YrcIdle /\ YrcTextIdle /\ WeightIdle
    /\ MoreIdle

GetCharHighlightClass ==
    /\ pc = "query_start"
    /\ highlightClass' = <<getCharHighlightClass(query)>>
    /\ pc' = "highlight_done"
    /\ UNCHANGED <<query, gradientProgress, segVars, synthVars, tagVars, lrcVars, yrcVars,
                   yrcTextVars, weightVars, moreVars>>

GetCharGradientProgress ==
    /\ pc = "query_start"
    /\ gradientProgress' = <<getCharGradientProgress(query)>>
    /\ pc' = "gradient_done"
    /\ UNCHANGED <<query, highlightClass, segVars, synthVars, tagVars, lrcVars, yrcVars,
                   yrcTextVars, weightVars, moreVars>>

NextQuery == GetCharHighlightClass \/ GetCharGradientProgress

SpecQuery == InitQuery /\ [][NextQuery]_vars


----------------------------------------------------------------------------
(* Marker specification: filterSpecialMarks on one text *)

\* what stands before the word of a text, and after it
MarkAffixes == {<<>>, <<" ">>, <<"han">>, <<"a">>, <<" ", "!">>}

\* the words the texts are built around
MarkWords ==
    { <<>>, <<"m", "u", "s", "i", "c">>, <<"M", "u", "s", "i", "c">>, <<"jian", "zou">>,
      <<"s", "o", "l", "o">>, <<"e", "n", "d">>, <<"E", "n", "d">>, <<".", ".", ".">>,
      <<"cjk_ellipsis">>, <<"han">> }

\* texts: affix, optional opening parenthesis, word, optional closing
\* parenthesis, affix
MarkTexts ==
    { pre \o o \o w \o c \o post :
        pre \in MarkAffixes, post \in MarkAffixes, w \in MarkWords,
        o \in {<<>>} \cup {<<p>> : p \in OpenParens},
        c \in {<<>>} \cup {<<p>> : p \in CloseParens} }

InitMarks ==
    /\ pc = "mark_start"
    /\ markText \in MarkTexts
    /\ markResult = <<>>
    /\ SegIdle /\ SynthIdle /\ TagIdle /\ LrcIdle /\ YrcIdle
    /\ YrcTextIdle /\ QueryIdle /\ WeightIdle /\ TimerIdle /\ RenderIdle

FilterSpecialMarks ==
    /\ pc = "mark_start"
    /\ markResult' = <<filterSpecialMarks(markText)>>
    /\ pc' = "mark_done"
    /\ UNCHANGED <<markText, segVars, synthVars, tagVars, lrcVars, yrcVars,
                   yrcTextVars, queryVars, weightVars, timerVars, renderVars>>

NextMarks == FilterSpecialMarks

SpecMarks == InitMarks /\ [][NextMarks]_vars


----------------------------------------------------------------------------
(* Timer specification: TimeoutTools, start and clear against the window's  *)
(* requestAnimationFrame and setTimeout queues                              *)

\* default of the constructor's thresholdTime, in milliseconds
thresholdTime == 80

\* latest value of performance.now()
MaxNow == 240

\* milliseconds performance.now() advances in one step
TickStep == 40

\* most handles the window hands out
MaxHandles == 4

\* the timeout arguments of start
StartTimeouts == {0, 40, 200}

TimerPcs == {"timer_new", "timer_started", "timer_cleared", "timer_frame", "timer_timeout"}

InitTimer ==
    /\ pc = "timer_new"
    /\ TimerIdle
    /\ SegIdle /\ SynthIdle /\ TagIdle /\ LrcIdle /\ YrcIdle
    /\ YrcTextIdle /\ QueryIdle /\ WeightIdle /\ MarkIdle /\ RenderIdle

\* what TimeoutTools leaves alone
timerRest == <<segVars, synthVars, tagVars, lrcVars, yrcVars,
               yrcTextVars, queryVars, weightVars, markVars, renderVars>>

\* run(): request a frame and keep its handle; frames is the window's queue
\* the request is added to
Run(frames) ==
    /\ lastHandle < MaxHandles
    /\ lastHandle' = lastHandle + 1
    /\ animationFrameId' = <<lastHandle + 1>>
    /\ pendingFrames' = frames \cup {lastHandle + 1}

Start(timeout) ==
    /\ pc \in TimerPcs
    /\ callback' = <<"callback">>
    /\ invokeTime' = now + timeout
    /\ Run(pendingFrames)
    /\ pc' = "timer_started"
    /\ UNCHANGED <<now, timeoutId, pendingTimeouts, timerRest>>

Clear ==
    /\ pc \in TimerPcs
    /\ pendingFrames' = IF animationFrameId # <<>>
                        THEN pendingFrames \ {animationFrameId[1]}
                        ELSE pendingFrames
    /\ animationFrameId' = <<>>
    /\ pendingTimeouts' = IF timeoutId # <<>>
                          THEN {t \in pendingTimeouts : t.id # timeoutId[1]}
                          ELSE pendingTimeouts
    /\ timeoutId' = <<>>
    /\ callback' = <<>>
    /\ pc' = "timer_cleared"
    /\ UNCHANGED <<now, invokeTime, lastHandle, timerRest>>

\* the window runs the frame callback with handle f
FrameFires(f) ==
    /\ pc \in TimerPcs
    /\ f \in pendingFrames
    /\ LET diff == invokeTime - now
       IN  IF diff > 0 /\ diff < thresholdTime
           THEN /\ Run(pendingFrames \ {f})
                /\ UNCHANGED <<timeoutId, pendingTimeouts>>
           ELSE IF diff > 0
           THEN /\ lastHandle < MaxHandles
                /\ lastHandle' = lastHandle + 1
                /\ timeoutId' = <<lastHandle + 1>>
                /\ pendingTimeouts' =
                       pendingTimeouts
                       \cup {[id |-> lastHandle + 1, due |-> now + (diff - thresholdTime)]}
                /\ animationFrameId' = <<>>
                /\ pendingFrames' = pendingFrames \ {f}
           ELSE /\ animationFrameId' = <<>>
                /\ pendingFrames' = pendingFrames \ {f}
                /\ UNCHANGED <<timeoutId, pendingTimeouts, lastHandle>>
    /\ pc' = "timer_frame"
    /\ UNCHANGED <<now, invokeTime, callback, timerRest>>

\* the window runs the timeout callback t once it is due
TimeoutFires(t) ==
    /\ pc \in TimerPcs
    /\ t \in pendingTimeouts
    /\ t.due <= now
    /\ timeoutId' = <<>>
    /\ pendingTimeouts' = pendingTimeouts \ {t}
    /\ Run(pendingFrames)
    /\ pc' = "timer_timeout"
    /\ UNCHANGED <<now, invokeTime, callback, timerRest>>

\* performance.now() advances
Tick ==
    /\ pc \in TimerPcs
    /\ now + TickStep <= MaxNow
    /\ now' = now + TickStep
    /\ UNCHANGED <<pc, invokeTime, animationFrameId, timeoutId, callback,
                   pendingFrames, pendingTimeouts, lastHandle, timerRest>>

NextTimer ==
    \/ \E timeout \in StartTimeouts : Start(timeout)
    \/ Clear
    \/ \E f \in pendingFrames : FrameFires(f)
    \/ \E t \in pendingTimeouts : TimeoutFires(t)
    \/ Tick

SpecTimer == InitTimer /\ [][NextTimer]_vars


----------------------------------------------------------------------------
(* Playback specification: the two per-unit queries of one unit, evaluated  *)
(* again whenever the playback time changes                                 *)

InitPlayback ==
    /\ pc = "unit_rendered"
    /\ query \in [lineIndex : {0, 1}, currentLyricIndex : {0, 1}, currentTime : QueryTimes,
                  line : [time : {0, 10000}], char : QueryChars]
    /\ highlightClass = <<getCharHighlightClass(query)>>
    /\ gradientProgress = <<getCharGradientProgress(query)>>
    /\ SegIdle /\ SynthIdle /\ TagIdle /\ LrcIdle /\ YrcIdle /\ YrcTextIdle /\ WeightIdle
    /\ MoreIdle

\* the playback time becomes t, by playing on or by a seek, and the unit is
\* rendered again
UnitTimeUpdate(t) ==
    /\ pc \in {"unit_rendered", "unit_updated"}
    /\ t # query.currentTime
    /\ query' = [query EXCEPT !.currentTime = t]
    /\ highlightClass' = <<getCharHighlightClass(query')>>
    /\ gradientProgress' = <<getCharGradientProgress(query')>>
    /\ pc' = "unit_updated"
    /\ UNCHANGED <<segVars, synthVars, tagVars, lrcVars, yrcVars,
                   yrcTextVars, weightVars, moreVars>>

NextPlayback == \E t \in QueryTimes : UnitTimeUpdate(t)

SpecPlayback == InitPlayback /\ [][NextPlayback]_vars

----------------------------------------------------------------------------
(* Renderer specification: currentLyricIndex of the lyric list component    *)

\* most lines of the rendered list
MaxRenderLines == 3

\* start times of the lines
RenderLineTimes == {0, 10000, 15000}

\* playback times
RenderTimes == {0, 400, 9600, 10000, 10400, 14600, 15000, 20000}

\* values of the lyricOffset prop
RenderOffsets == {0 - 500, 0, 500}

\* the line lists, sorted by time as parseLyric returns them
RenderLyrics ==
    { ls \in SeqsUpTo([time : RenderLineTimes], MaxRenderLines) :
        \A k \in 1..(Len(ls) - 1) : ls[k].time <= ls[k + 1].time }

adjustedTime(p) == p.currentTime + p.lyricOffset

RECURSIVE ScanLyrics(_, _, _, _)
\* the loop of currentLyricIndex from the 0-based position i on
ScanLyrics(ls, time, i, index) ==
    IF i >= Len(ls) THEN index
    ELSE IF ls[i + 1].time <= time THEN ScanLyrics(ls, time, i + 1, i)
    ELSE index

\* the loop without its break and keeping the first line that has started
computeCurrentLyricIndex_firstStarted(p) ==
    IF \E k \in 1..Len(p.lyrics) : p.lyrics[k].time <= adjustedTime(p)
    THEN (CHOOSE k \in 1..Len(p.lyrics) :
              /\ p.lyrics[k].time <= adjustedTime(p)
              /\ \A j \in 1..(k - 1) : p.lyrics[j].time > adjustedTime(p)) - 1
    ELSE 0 - 1

\* the computed currentLyricIndex, 0-based
computeCurrentLyricIndex(p) ==
    IF Len(p.lyrics) = 0 THEN 0 - 1 ELSE ScanLyrics(p.lyrics, adjustedTime(p), 0, 0 - 1)

InitRender ==
    /\ pc = "list_rendered"
    /\ props \in [lyrics : RenderLyrics, currentTime : RenderTimes, lyricOffset : RenderOffsets]
    /\ currentLyricIndex = computeCurrentLyricIndex(props)
    /\ SegIdle /\ SynthIdle /\ TagIdle /\ LrcIdle /\ YrcIdle
    /\ YrcTextIdle /\ QueryIdle /\ WeightIdle /\ MarkIdle /\ TimerIdle

\* the currentTime prop becomes t, by playing on or by a seek
ListTimeUpdate(t) ==
    /\ pc \in {"list_rendered", "list_updated"}
    /\ t # props.currentTime
    /\ props' = [props EXCEPT !.currentTime = t]
    /\ currentLyricIndex' = computeCurrentLyricIndex(props')
    /\ pc' = "list_updated"
    /\ UNCHANGED <<segVars, synthVars, tagVars, lrcVars, yrcVars,
                   yrcTextVars, queryVars, weightVars, markVars, timerVars>>

\* the lyricOffset prop becomes o
ListOffsetUpdate(o) ==
    /\ pc \in {"list_rendered", "list_updated"}
    /\ o # props.lyricOffset
    /\ props' = [props EXCEPT !.lyricOffset = o]
    /\ currentLyricIndex' = computeCurrentLyricIndex(props')
    /\ pc' = "list_updated"
    /\ UNCHANGED <<segVars, synthVars, tagVars, lrcVars, yrcVars,
                   yrcTextVars, queryVars, weightVars, markVars, timerVars>>

NextRender ==
    \/ \E t \in RenderTimes : ListTimeUpdate(t)
    \/ \E o \in RenderOffsets : ListOffsetUpdate(o)

SpecRender == InitRender /\ [][NextRender]_vars

----------------------------------------------------------------------------
(* The whole engine *)

Init == InitSeg \/ InitSynth \/ InitTags \/ InitLrc \/ InitYrc \/ InitYrcText
        \/ InitParse \/ InitQuery \/ InitWeight \/ InitMarks
        \/ InitTimer \/ InitPlayback \/ InitRender

Next == NextSeg \/ NextSynth \/ NextTags \/ NextLrc \/ NextYrc \/ NextYrcText
        \/ NextQuery \/ NextWeight \/ NextMarks
        \/ NextTimer \/ NextPlayback \/ NextRender

Spec == Init /\ [][Next]_vars

----------------------------------------------------------------------------
(* Properties of the segmenter *)

\* C4: joining the units returned by splitTextToChars reproduces the text,
\* no unit is empty, and the empty text yields the empty sequence.
C4_SplitRejoins ==
    pc = "seg_done" =>
        /\ Join(chars) = text
        /\ \A k \in 1..Len(chars) : chars[k] # <<>>
        /\ (text = <<>> => chars = <<>>)

\* a text with a word of two characters and a space has been split
C4_Witness ==
    /\ pc = "seg_done"
    /\ Len(chars) >= 2
    /\ \E k \in 1..Len(chars) : Len(chars[k]) >= 2
    /\ \E k \in 1..Len(chars) : chars[k] = <<" ">>

----------------------------------------------------------------------------
(* Properties of the synthesizer *)

\* the stages compose to the function
SynthStagesAgree == pc = "gen_done" => result = generateCharTimings(line, nextLineTime)

\* C1: after all passes the first unit starts at 0 and the last unit ends at
\* line.duration exactly, for every non-empty text and every next boundary.
C1_DurationConserved ==
    (pc = "gen_done" /\ line.text # <<>>) =>
        /\ result # <<>>
        /\ result[1].startTime = 0
        /\ line.duration = <<result[Len(result)].endTime>>

\* C2: consecutive units never overlap by more than 5 ms.
C2_NoOverlap ==
    pc = "gen_done" =>
        \A k \in 1..(Len(result) - 1) : result[k].endTime <= result[k + 1].startTime + 5

----------------------------------------------------------------------------
(* Properties of the line-level parser *)

\* C3: every unit of every line parseLyric returns on LRC input has
\* startTime >= 0 and a positive span (validateLyricTiming finds no error),
\* whatever the number of units and the line duration.
C3_PositiveSpans ==
    pc = "lrc_done" =>
        \A k \in 1..Len(lyrics) : \A j \in 1..Len(lyrics[k].chars) :
            /\ lyrics[k].chars[j].startTime >= 0
            /\ Dur(lyrics[k].chars[j]) > 0

\* milliseconds of a tag read as the claim reads it: a two-digit fraction is
\* hundredths of a second, a three-digit fraction thousandths
ClaimedTagTime(tag) ==
    (tag.min * 60 + tag.sec) * 1000
        + (IF Len(tag.frac) = 2 THEN ParseInt(tag.frac) * 10 ELSE ParseInt(tag.frac))

\* C5: a tag [mm:ss.ff] converts to mm*60 + ss + fraction seconds, ff being
\* hundredths and fff thousandths, and a later tag converts to a larger value.
C5_TagSeconds ==
    pc = "tag_done" =>
        /\ \A k \in 1..Len(tagLine.tags) :
              tagResults[k].time = ClaimedTagTime(tagLine.tags[k])
        /\ \A j, k \in 1..Len(tagLine.tags) :
              ClaimedTagTime(tagLine.tags[j]) < ClaimedTagTime(tagLine.tags[k])
                  => tagResults[j].time < tagResults[k].time

\* the content of a line matches one of the metadata patterns
IsMetaContent(t) ==
    \E k \in 1..Len(MetaKeys) : MetaMatchFrom(Trim(t), MetaLabel(MetaKeys[k]), 1) # <<>>

\* C6: a line tagged [00:00.00] with metadata content sets its MetaInfo field
\* to the trimmed value and does not appear in the returned lyrics.
C6_MetaExcluded ==
    pc = "lrc_done" =>
        \A i \in 1..Len(lyricText) :
            LET l == lyricText[i]
            IN  (Len(l.tags) = 1 /\ IsZeroTag(l.tags[1]) /\ IsMetaContent(l.text)) =>
                    /\ \E key \in DOMAIN metaInfo :
                          /\ metaInfo[key] # <<>>
                          /\ metaInfo[key] = MetaOfLine(EmptyMeta, Trim(l.text), 1)[key]
                    /\ \A k \in 1..Len(lyrics) :
                          ~(lyrics[k].time = 0 /\ lyrics[k].text = Trim(l.text))

\* C7: a special-mark line is absent from the lyrics, and the rendered line
\* immediately before it lasts from its own time to the mark's time.
C7_MarkIsBoundary ==
    pc = "lrc_done" =>
        LET entries == EntriesOf(lyricText)
            points == AllTimePoints(lyricText)
        IN  \A e \in 1..Len(entries) :
                filterSpecialMarks(entries[e].text).isSpecialMark =>
                    /\ \A k \in 1..Len(lyrics) : lyrics[k].text # entries[e].text
                    /\ \A k \in 1..Len(lyrics) :
                          (/\ lyrics[k].time < entries[e].time
                           /\ ~\E p \in 1..Len(points) :
                                 lyrics[k].time < points[p] /\ points[p] < entries[e].time)
                          => lyrics[k].duration = <<entries[e].time - lyrics[k].time>>

\* C8: a rendered line with no later time point in the boundary list lasts
\* exactly 4 seconds and its units are synthesized over 4 seconds.
C8_LastLineDefault ==
    pc = "lrc_done" =>
        LET points == AllTimePoints(lyricText)
        IN  \A k \in 1..Len(lyrics) :
                (~\E p \in 1..Len(points) : points[p] > lyrics[k].time) =>
                    /\ lyrics[k].duration = <<4000>>
                    /\ lyrics[k].chars =
                          generateCharTimings([time |-> lyrics[k].time,
                                               text |-> lyrics[k].text,
                                               duration |-> <<>>], <<>>)

----------------------------------------------------------------------------
(* Properties of the precise-timing importer *)

\* the entries of a tuple line that carry text
TextEntries(cs) == SelectSeq(cs, LAMBDA e : e.text # <<>>)

\* C9: a tuple line [S,D](c1,d1,r)t1... imports as time S, duration D, text
\* t1t2..., unit k starting at max(0, ck - S) and ending dk later, so no unit
\* starts before 0 or ends before it starts, even when ck < S.
C9_TupleImport ==
    (pc = "yrc_line_done" /\ yrcLine.kind = "tuple" /\ TextEntries(yrcLine.cs) # <<>>) =>
        LET kept == TextEntries(yrcLine.cs)
        IN  /\ yrcParsed # <<>>
            /\ yrcParsed[1].time = yrcLine.S
            /\ yrcParsed[1].duration = <<yrcLine.D>>
            /\ yrcParsed[1].text = Join([k \in 1..Len(kept) |-> kept[k].text])
            /\ Len(yrcParsed[1].chars) = Len(kept)
            /\ \A k \in 1..Len(kept) :
                  LET u == yrcParsed[1].chars[k]
                  IN  /\ u.text = kept[k].text
                      /\ u.startTime = (IF kept[k].c > yrcLine.S
                                        THEN kept[k].c - yrcLine.S ELSE 0)
                      /\ u.endTime = u.startTime + kept[k].d
                      /\ u.startTime >= 0
                      /\ u.endTime >= u.startTime

\* a tuple line was imported whose character timestamp precedes the line start
C9_Witness ==
    /\ pc = "yrc_line_done"
    /\ yrcLine.kind = "tuple"
    /\ yrcParsed # <<>>
    /\ \E k \in 1..Len(yrcLine.cs) : yrcLine.cs[k].text # <<>> /\ yrcLine.cs[k].c < yrcLine.S
    /\ Len(yrcParsed[1].chars) = 2

\* C10: the units of a JSON line start at the running sum of the durations
\* before them and end their own duration later, consecutive units are
\* contiguous, and line.duration is the sum of the durations, the last endTime.
C10_JsonAccumulates ==
    (pc \in {"yrc_json_done", "yrc_line_done"} /\ yrcLine.kind = "json" /\ yrcParsed # <<>>) =>
        LET kept == SelectSeq(yrcLine.c[1], LAMBDA e : e.tx # <<>>)
            units == yrcParsed[1].chars
            d == [k \in 1..Len(kept) |-> OrZero(kept[k].t)]
        IN  /\ Len(units) = Len(kept)
            /\ \A k \in 1..Len(units) :
                  /\ units[k].startTime = SumSeq(SubSeq(d, 1, k - 1))
                  /\ units[k].endTime = units[k].startTime + d[k]
            /\ \A k \in 1..(Len(units) - 1) : units[k].endTime = units[k + 1].startTime
            /\ yrcParsed[1].duration = <<SumSeq(d)>>
            /\ yrcParsed[1].duration = <<units[Len(units)].endTime>>

\* a JSON line with two timed characters was imported
C10_Witness ==
    /\ pc = "yrc_json_done"
    /\ yrcLine.kind = "json"
    /\ yrcParsed # <<>>
    /\ Len(yrcParsed[1].chars) = 2
    /\ yrcParsed[1].chars[2].startTime > 0
    /\ yrcParsed[1].chars[2].endTime > yrcParsed[1].chars[2].startTime

----------------------------------------------------------------------------
(* Properties of the whole-text importer *)

\* a line the claim calls malformed, or that the importer skips as blank or comment:
\* no [S,D] header, JSON that does not parse or lacks "t" or "c", no character parsed
IsMalformedYrc(l) ==
    \/ l.kind \in {"blank", "comment", "garbage"}
    \/ l.kind = "tuple" /\ \A k \in 1..Len(l.cs) : l.cs[k].text = <<>>
    \/ l.kind = "json" /\ (~l.valid \/ l.t = <<>> \/ l.c = <<>>)
    \/ l.kind = "json" /\ l.c # <<>> /\ \A k \in 1..Len(l.c[1]) : l.c[1][k].tx = <<>>

\* the text of a well-formed line: its character texts in order
YrcLineText(l) ==
    IF l.kind = "tuple" THEN Join([k \in 1..Len(l.cs) |-> l.cs[k].text])
    ELSE Join([k \in 1..Len(l.c[1]) |-> l.c[1][k].tx])

\* a well-formed line whose text is a special mark
IsMarkerYrc(l) == ~IsMalformedYrc(l) /\ filterSpecialMarks(YrcLineText(l)).isSpecialMark

\* C11: parseYrc drops malformed lines silently: its output is what it returns for
\* the input without the malformed lines, and it has one line for every well-formed
\* line of the input that is not a special mark.
C11_MalformedDropped ==
    pc = "yrc_text_done" =>
        /\ yrcLyrics = parseYrc(SelectSeq(yrcSource, LAMBDA l : ~IsMalformedYrc(l)))
        /\ Len(yrcLyrics) =
             Len(SelectSeq(yrcSource, LAMBDA l : ~IsMalformedYrc(l) /\ ~IsMarkerYrc(l)))

----------------------------------------------------------------------------
(* Properties of the query interface *)

\* C12: on the active line the class is not-started ("") exactly when the relative
\* time is below startTime - 0.05, sung exactly when it is at least endTime + 0.05
\* and not below startTime - 0.05, and singing otherwise, so that less than 50 ms
\* past endTime is still singing; on any other line it is not-started.
C12_HighlightBuffered ==
    pc = "highlight_done" =>
        LET rel == query.currentTime - query.line.time
            cls == highlightClass[1]
            notStarted == rel < query.char.startTime - 50
            sung == rel >= query.char.endTime + 50 /\ ~notStarted
        IN  IF query.lineIndex # query.currentLyricIndex THEN cls = ""
            ELSE /\ (cls = "") <=> notStarted
                 /\ (cls = "char-sung") <=> sung
                 /\ (cls = "char-singing") <=> (~notStarted /\ ~sung)
                 /\ (rel >= query.char.startTime /\ rel >= query.char.endTime
                        /\ rel < query.char.endTime + 50) => cls = "char-singing"

\* the active line is asked about a time 49 ms past the end of a unit: still singing
C12_Witness ==
    /\ pc = "highlight_done"
    /\ query.lineIndex = query.currentLyricIndex
    /\ query.char.endTime > query.char.startTime
    /\ query.currentTime - query.line.time = query.char.endTime + 49
    /\ highlightClass = <<"char-singing">>

\* C13: the gradient progress is a number from 0 to 100 for every time, line and
\* unit: 0 when the line is not active or the relative time is before startTime,
\* 100 when it is at or after endTime.
C13_ProgressClamped ==
    pc = "gradient_done" =>
        LET rel == query.currentTime - query.line.time
            p == gradientProgress[1]
        IN  /\ p \in 0..10000
            /\ query.lineIndex # query.currentLyricIndex => p = 0
            /\ (query.lineIndex = query.currentLyricIndex /\ rel < query.char.startTime)
                   => p = 0
            /\ (query.lineIndex = query.currentLyricIndex /\ rel >= query.char.endTime)
                   => p = 10000

----------------------------------------------------------------------------
(* Properties of the translation matching *)

RECURSIVE ClaimedTranslationsFrom(_, _, _)
\* the translation entries in text order, each tag read as the claims read it
\* (a two-digit fraction is hundredths), entries without text left out
ClaimedTranslationsFrom(tlines, i, k) ==
    IF i > Len(tlines) THEN <<>>
    ELSE IF k > Len(tlines[i].tags) THEN ClaimedTranslationsFrom(tlines, i + 1, 1)
    ELSE IF Trim(tlines[i].text) = <<>> THEN ClaimedTranslationsFrom(tlines, i + 1, 1)
    ELSE <<[time |-> ClaimedTagTime(tlines[i].tags[k]), text |-> Trim(tlines[i].text)]>>
         \o ClaimedTranslationsFrom(tlines, i, k + 1)

\* the ttext values the claim allows for a line at the given time
ClaimedTtexts(entries, time) ==
    IF \E k \in 1..Len(entries) : entries[k].time = time
    THEN {<<entries[k].text>> : k \in {j \in 1..Len(entries) : entries[j].time = time}}
    ELSE IF \E k \in 1..Len(entries) : Abs(entries[k].time - time) < 500
    THEN {<<entries[CHOOSE k \in 1..Len(entries) :
                       /\ Abs(entries[k].time - time) < 500
                       /\ \A j \in 1..(k - 1) : ~(Abs(entries[j].time - time) < 500)].text>>}
    ELSE {<<>>}

\* C14: with a translation text, every line gets the translation stamped with its
\* own time when there is one, otherwise the first translation in text order stamped
\* less than 0.5 s away, and no ttext when no translation is that close.
C14_TranslationMatched ==
    (pc = "lrc_done" /\ tlyricText # <<>>) =>
        \A k \in 1..Len(lyrics) :
            lyrics[k].ttext \in ClaimedTtexts(ClaimedTranslationsFrom(tlyricText, 1, 1),
                                              lyrics[k].time)

----------------------------------------------------------------------------
(* Properties of the weight model *)

IsPunctUnit(u) == Len(u) = 1 /\ u[1] \in CjkPunct \cup AsciiPunct

IsCjkUnit(u) == u \in {<<"han">>, <<"ah">>}

IsLongWord(u) == Len(u) >= 2 /\ \A k \in 1..Len(u) : u[k] \in Letters

----------------------------------------------------------------------------
(* Properties of the whole parser *)

\* C16: the lyrics parseLyric returns are sorted by time, on the precise path and on
\* the line-level path, whatever the order of the input lines.
C16_SortedByTime ==
    pc = "lrc_done" =>
        \A i \in 1..(Len(lyrics) - 1) : lyrics[i].time <= lyrics[i + 1].time

\* the line-level path was given a later line before an earlier one
C16_Witness ==
    /\ pc = "lrc_done"
    /\ yrcText = <<>> /\ yrcsText = <<>>
    /\ Len(lyricText) >= 2
    /\ TagTime(lyricText[1].tags[1]) > TagTime(lyricText[2].tags[1])
    /\ Len(lyrics) >= 2
    /\ lyrics[1].time < lyrics[2].time

----------------------------------------------------------------------------
(* Properties of the redistribution passes *)

\* what the units before the last one lose in a step
SpanGiven(before, after) ==
    SumSeq([k \in 1..(Len(before) - 1) |-> Dur(before[k]) - Dur(after[k])])

\* the last unit is below its minimum and a unit before it is above its own
LastUnitCanBorrow(res, ext) ==
    LET n == Len(res)
    IN  /\ n > 1
        /\ Dur(res[n]) * 10 < (IF ext[n] THEN 3000 ELSE 1800)
        /\ \E i \in 1..(n - 1) : Dur(res[i]) * 10 > (IF ext[i] THEN 2400 ELSE 1800)

\* C17: in pass (b), when the final unit is below its minimum (0.30 s extended, else
\* 0.18 s) and a preceding unit is above its own (0.24 s extended, else 0.18 s), the
\* final unit's span grows by exactly the time borrowed, each donor's span shrinks by
\* what it gave, and the line still starts at 0 and ends where it ended.
C17_LastUnitBorrows ==
    [][(/\ pc = "gen_extended" /\ pc' = "gen_last"
        /\ LastUnitCanBorrow(result, ExtendedPositions(splitTextToChars(line.text))))
       => LET n == Len(result)
          IN  /\ Len(result') = n
              /\ SpanGiven(result, result') > 0
              /\ \A k \in 1..(n - 1) : Dur(result'[k]) <= Dur(result[k])
              /\ Dur(result'[n]) = Dur(result[n]) + SpanGiven(result, result')
              /\ result'[1].startTime = result[1].startTime
              /\ result'[n].endTime = result[n].endTime]_vars

\* a non-final extended unit is below 0.24 s and a later non-extended unit is above
\* 0.18 s
ExtendedUnitCanBorrow(res, ext) ==
    \E i \in 1..(Len(res) - 1) :
        /\ ext[i] /\ Dur(res[i]) < 240
        /\ \E j \in (i + 1)..Len(res) : ~ext[j] /\ Dur(res[j]) * 10 > 1800

\* C18: in pass (a), when a non-final extended unit is below 0.24 s and later
\* non-extended units are above 0.18 s, the extended unit is lengthened by what those
\* units lend; each lender's span shrinks by that amount, never below 0.12 s, and every
\* other unit, the final one included, keeps its span.
C18_ExtendedUnitBorrows ==
    [][(/\ pc = "gen_allocated" /\ pc' = "gen_extended"
        /\ ExtendedUnitCanBorrow(result, ExtendedPositions(splitTextToChars(line.text))))
       => LET n == Len(result)
              ext == ExtendedPositions(splitTextToChars(line.text))
              gained == SumSeq([k \in 1..n |->
                                  IF ext[k] /\ k < n THEN Dur(result'[k]) - Dur(result[k])
                                  ELSE 0])
              lent == SumSeq([k \in 1..n |->
                                IF ~ext[k] THEN Dur(result[k]) - Dur(result'[k]) ELSE 0])
          IN  /\ Len(result') = n
              /\ gained > 0 /\ gained = lent
              /\ \A k \in 1..n : (ext[k] /\ k < n) => Dur(result'[k]) >= Dur(result[k])
              /\ \A k \in 1..n : ~ext[k] =>
                     /\ Dur(result'[k]) <= Dur(result[k])
                     /\ Dur(result'[k]) < Dur(result[k]) =>
                            (Dur(result[k]) * 10 > 1800 /\ Dur(result'[k]) >= 120)
              /\ Dur(result'[n]) = Dur(result[n])]_vars

----------------------------------------------------------------------------
(* Properties of the fallback and of the long-pause detection *)

\* every unit is a space or a punctuation mark
OnlySpacesAndPunctuation(units) ==
    \A k \in 1..Len(units) : units[k] = <<" ">> \/ IsPunctUnit(units[k])

\* C19: a line whose units are all spaces or punctuation is divided uniformly: with n
\* units over the duration d, unit k (from 0) spans [k*d/n, (k+1)*d/n].
C19_UniformFallback ==
    (/\ pc = "gen_done" /\ line.text # <<>>
     /\ OnlySpacesAndPunctuation(splitTextToChars(line.text)))
    => LET n == Len(splitTextToChars(line.text))
           d == line.duration[1]
       IN  /\ Len(result) = n
           /\ \A k \in 1..n : /\ result[k].startTime = ((k - 1) * d) \div n
                                /\ result[k].endTime = (k * d) \div n

\* C20: when the following boundary is more than 5 s after the line, the line is
\* treated as ending a phrase: the long-pause flag is set, and in the very slow band
\* the allocation is the one with the final unit's weight multiplied by 1.3 as well.
C20_LongPauseWeighted ==
    (/\ pc = "gen_allocated" /\ Truthy(nextLineTime)
     /\ nextLineTime[1] - line.time > 5000)
    => LET units == splitTextToChars(line.text)
           raw == RawDuration(line, nextLineTime)
           adj == AdjustedWeights(units, raw, TRUE)
       IN  /\ HasLongPause(line, nextLineTime)
           /\ result = AllocateFrom(units, adj, SumSeq(adj), raw, 1, 0)

----------------------------------------------------------------------------
(* Properties of the source priority *)

\* a list of lines without the translation: time, text, duration and units
Core(ls) ==
    [k \in 1..Len(ls) |-> [time |-> ls[k].time, text |-> ls[k].text,
                            duration |-> ls[k].duration, chars |-> ls[k].chars]]

\* C21: priority yrc > yrcs > lyric: when yrcText is in the precise format the lines
\* are the importer's lines for yrcText, otherwise when yrcsText is in the precise
\* format they are the importer's lines for yrcsText, and only when neither is are
\* they the line-level lines of lyricText.
C21_SourcePriority ==
    pc = "lrc_done" =>
        Core(lyrics) = IF isYrcFormat(yrcText) THEN Core(parseYrc(yrcText))
                       ELSE IF isYrcFormat(yrcsText) THEN Core(parseYrc(yrcsText))
                       ELSE Core(parseLyric(lyricText))

\* a text made only of JSON-variant lines that parse and have "t" and "c"
IsJsonOnlyText(t) ==
    /\ t # <<>>
    /\ \A k \in 1..Len(t) :
           t[k].kind = "json" /\ t[k].valid /\ t[k].t # <<>> /\ t[k].c # <<>>

\* C22: a yrcText made only of JSON-variant lines is taken as precise timing: the lines
\* returned are those of the JSON importer, with its exact unit timings.
C22_JsonRecognised ==
    (pc = "lrc_done" /\ IsJsonOnlyText(yrcText)) =>
        Core(lyrics) = Core(parseYrc(yrcText))


----------------------------------------------------------------------------
(* Properties of the marker filter *)

\* the enumerated markers: a listed word in any case with an optional opening
\* and an optional closing parenthesis, the word end in any case, three
\* full stops, the ellipsis
IsEnumeratedMark(t) ==
    \/ \E o \in {<<>>} \cup {<<p>> : p \in OpenParens},
          c \in {<<>>} \cup {<<p>> : p \in CloseParens},
          w \in SpecialWords :
           /\ Len(t) = Len(o) + Len(w) + Len(c)
           /\ SubSeq(t, 1, Len(o)) = o
           /\ LowerText(SubSeq(t, Len(o) + 1, Len(o) + Len(w))) = w
           /\ SubSeq(t, Len(o) + Len(w) + 1, Len(t)) = c
    \/ Len(t) = 3 /\ Lower(t[1]) = "e" /\ Lower(t[2]) = "n" /\ Lower(t[3]) = "d"
    \/ Len(t) = 3 /\ \A k \in 1..3 : t[k] = "."
    \/ Len(t) = 1 /\ t[1] = "cjk_ellipsis"

\* C23: filterSpecialMarks flags a text exactly when its whole trimmed text is
\* one of the enumerated markers, then with the empty text; every other text,
\* also one that contains a marker word, comes back trimmed and not flagged.
C23_OnlyWholeMarkers ==
    pc = "mark_done" =>
        IF IsEnumeratedMark(Trim(markText))
        THEN markResult[1] = [text |-> <<>>, isSpecialMark |-> TRUE]
        ELSE markResult[1] = [text |-> Trim(markText), isSpecialMark |-> FALSE]

\* a text with a marker word next to other characters came back trimmed
C23_Witness ==
    /\ pc = "mark_done"
    /\ \E i \in 1..Len(markText), j \in 1..Len(markText) :
           LowerText(SubSeq(markText, i, j)) = <<"m", "u", "s", "i", "c">>
    /\ ~markResult[1].isSpecialMark
    /\ markResult[1].text # markText
    /\ Len(markResult[1].text) > 5


----------------------------------------------------------------------------
(* Properties of stacked timestamps *)

RECURSIVE TagsWithText(_, _)
\* number of tags on the physical lines whose trimmed text is x
TagsWithText(lines, x) ==
    IF lines = <<>> THEN 0
    ELSE (IF Trim(Head(lines).text) = x THEN Len(Head(lines).tags) ELSE 0)
         + TagsWithText(Tail(lines), x)

\* C24: a physical line with k tags yields k entries from
\* parseMultipleTimestamps, one per tag in tag order, all with the trimmed
\* text of the line; when that text is a lyric, parseLyric returns one line
\* per tag with that text, each with units and a duration of its own.
C24_StackedTags ==
    pc = "lrc_done" =>
        \A p \in 1..Len(lyricText) :
            LET l == lyricText[p]
                x == Trim(l.text)
                r == parseMultipleTimestamps(l)
                own == {k \in 1..Len(lyrics) : lyrics[k].text = x}
            IN  /\ Len(r) = Len(l.tags)
                /\ \A k \in 1..Len(r) : r[k] = [time |-> TagTime(l.tags[k]), text |-> x]
                /\ (x # <<>> /\ ~IsEnumeratedMark(x)) =>
                      /\ Cardinality(own) = TagsWithText(lyricText, x)
                      /\ \A t \in 1..Len(l.tags) :
                            \E k \in own : lyrics[k].time = TagTime(l.tags[t])
                      /\ \A k \in own : lyrics[k].chars # <<>> /\ lyrics[k].duration # <<>>

\* a line with two tags gave two rendered lines at different times
C24_Witness ==
    /\ pc = "lrc_done"
    /\ \E p \in 1..Len(lyricText) : Len(lyricText[p].tags) = 2
    /\ \E j \in 1..Len(lyrics), k \in 1..Len(lyrics) :
           /\ lyrics[j].text = <<"ah">> /\ lyrics[k].text = <<"ah">>
           /\ lyrics[j].time = 15000 /\ lyrics[k].time = 20000
           /\ lyrics[j].chars # <<>> /\ lyrics[k].chars # <<>>


----------------------------------------------------------------------------
(* Properties of the timer *)

\* C25: once clear() has returned, the window holds no requestAnimationFrame
\* callback and no setTimeout callback scheduled by the instance, whatever
\* starts, clears and callback runs came before.
C25_ClearCancelsAll ==
    pc = "timer_cleared" => pendingFrames = {} /\ pendingTimeouts = {}


----------------------------------------------------------------------------
(* Properties of the lines parseLyric returns *)

\* C26: on both paths every line parseLyric returns has a non-empty unit list
\* and its text is the concatenation, in order, of the texts of its units.
C26_TextIsUnitsJoined ==
    pc = "lrc_done" =>
        \A k \in 1..Len(lyrics) :
            /\ lyrics[k].chars # <<>>
            /\ lyrics[k].text = Join(UnitTexts(lyrics[k].chars))

\* the precise path returned a line whose text ends in a space, of two units
C26_Witness ==
    /\ pc = "lrc_done"
    /\ isYrcFormat(yrcsText) /\ yrcText = <<>>
    /\ \E k \in 1..Len(lyrics) :
           /\ Len(lyrics[k].chars) = 2
           /\ lyrics[k].text = <<"a", " ", "b", " ">>


\* C27: every line of the line-level path lasts longer than 0, also when
\* several input lines carry the same timestamp.
C27_PositiveDuration ==
    (pc = "lrc_done" /\ ~isYrcFormat(IF yrcText # <<>> THEN yrcText ELSE yrcsText)) =>
        \A k \in 1..Len(lyrics) :
            /\ lyrics[k].duration # <<>>
            /\ lyrics[k].duration[1] > 0

----------------------------------------------------------------------------
(* Properties of the JSON variant *)

\* a well-formed JSON object with a start time, a character list and at
\* least one character entry whose text is not empty
IsWellFormedJsonLine(l) ==
    /\ l.kind = "json" /\ l.valid
    /\ l.t # <<>>
    /\ l.c # <<>>
    /\ \E k \in 1..Len(l.c[1]) : l.c[1][k].tx # <<>>

\* C28: parseYrcJsonLine returns a line for every well-formed JSON object
\* with at least one character entry with text, a start time of 0 included.
C28_WellFormedJsonParsed ==
    (pc = "yrc_json_done" /\ IsWellFormedJsonLine(yrcLine)) => yrcParsed # <<>>


----------------------------------------------------------------------------
(* Properties of the renderer *)

\* the stages of a unit: not started, singing, sung
ClassRank(c) == IF c = "" THEN 0 ELSE IF c = "char-singing" THEN 1 ELSE 2

\* C29: for a unit of the active line with endTime >= startTime, when the
\* playback time increases the class of getCharHighlightClass stays or
\* advances from not started to singing to sung, and the progress of
\* getCharGradientProgress does not decrease.
C29_HighlightOnlyAdvances ==
    [][(/\ pc \in {"unit_rendered", "unit_updated"}
        /\ pc' = "unit_updated"
        /\ query.lineIndex = query.currentLyricIndex
        /\ query.char.endTime >= query.char.startTime
        /\ query'.currentTime > query.currentTime)
       => /\ ClassRank(highlightClass'[1]) >= ClassRank(highlightClass[1])
          /\ gradientProgress'[1] >= gradientProgress[1]]_vars

\* after a time update a unit of the active line is singing and partly filled
C29_Witness ==
    /\ pc = "unit_updated"
    /\ query.lineIndex = query.currentLyricIndex
    /\ query.char.endTime > query.char.startTime
    /\ highlightClass = <<"char-singing">>
    /\ gradientProgress[1] > 0 /\ gradientProgress[1] < 10000

\* the index the list should show at the adjusted time: -1 for no line or a
\* time before the first line, else the last line that has started
ActiveLineAt(p) ==
    IF p.lyrics = <<>> \/ p.currentTime + p.lyricOffset < p.lyrics[1].time THEN 0 - 1
    ELSE (CHOOSE i \in 1..Len(p.lyrics) :
              /\ p.lyrics[i].time <= p.currentTime + p.lyricOffset
              /\ \A j \in (i + 1)..Len(p.lyrics) :
                    p.lyrics[j].time > p.currentTime + p.lyricOffset) - 1

\* C30: over a time-sorted list currentLyricIndex is -1 when the list is empty
\* or the adjusted time precedes the first line, else the largest index whose
\* line starts at or before the adjusted time; it does not decrease when the
\* playback time increases.
C30_ActiveLine ==
    /\ [](pc \in {"list_rendered", "list_updated"} => currentLyricIndex = ActiveLineAt(props))
    /\ [][(/\ pc \in {"list_rendered", "list_updated"}
           /\ pc' = "list_updated"
           /\ props'.lyrics = props.lyrics
           /\ props'.lyricOffset = props.lyricOffset
           /\ props'.currentTime > props.currentTime)
          => currentLyricIndex' >= currentLyricIndex]_vars

\* after an update, with an offset, the second of three lines is active
\* although the third has the same start time
C30_Witness ==
    /\ pc = "list_updated"
    /\ Len(props.lyrics) = 3
    /\ props.lyricOffset # 0
    /\ props.lyrics[2].time = props.lyrics[3].time
    /\ currentLyricIndex = 0
    /\ props.currentTime > props.lyrics[1].time

====
